---- MODULE Spec2Model ----
(***************************************************************************)
(* A model of the TF-IDF corpus of text/corpse: the Corpus aggregate       *)
(* (document-frequency map, sorted term index, document count, prune       *)
(* flag), its tokenizer / term-filter pipeline, its prune hooks, the       *)
(* vectorizer, the RWMutex that serialises its callers, and the map        *)
(* objects it hands to them.                                               *)
(*                                                                         *)
(* A text is a sequence of character codes, a term is a non-empty sequence *)
(* of character codes, and Go's string order is the lexicographic order of *)
(* these sequences.                                                        *)
(*                                                                         *)
(* Specifications: Spec (one caller, every call), LogSpec (documents, then *)
(* vectors of one text, logged), OptSpec (sizes not positive), HeapSpec    *)
(* (maps by reference), ConcSpec (concurrent callers), HookSpec (one stock *)
(* prune hook), CapSpec (used capacity, float32 held exactly), OrderSpec   *)
(* (documents in every order), FilterSpec (filters that do not commute),   *)
(* TokSpec (the tokenizer alone), CollectSpec (tokenizing through one      *)
(* stock term filter), SetSpec (the sorted set alone), PoolSpec (the       *)
(* pooled scratch maps of concurrent callers), DirtySpec (the prune flag   *)
(* between calls), FairSpec (fairly scheduled concurrent callers).         *)
(***************************************************************************)
EXTENDS Bags, Integers, Sequences, FiniteSets, TLC

\* ------------------------------------------------------------------ bounds

\* Most words in a text handed to IndexDocument / CreateVector.
MaxWords == 2
\* Most IndexDocument calls between two Resets.
MaxDocs == 2
\* Concurrent callers of the corpus.
NumThreads == 2
\* Most calls the concurrent callers start between them.
MaxCalls == 3
\* Most IndexDocument calls on a corpus built to try the stock prune hooks.
MaxHookDocs == 5
\* Most terms in the vocabulary of a corpus built to read its used capacity.
MaxCapTerms == 260
\* Most characters in a text handed to the tokenizer alone.
MaxRunes == 4
\* Most calls the fairly scheduled callers start, all together.
MaxFairCalls == 2

\* ------------------------------------------------------------------- texts

\* A text is a sequence of character codes. The texts of the model are up to
\* MaxWords words joined by a space (32): "a", "b" and "Ab".
Words == {<<97>>, <<98>>, <<65, 98>>}

RECURSIVE SeqsUpTo(_, _)
SeqsUpTo(S, n) ==
    IF n = 0 THEN {<<>>}
    ELSE LET shorter == SeqsUpTo(S, n - 1)
         IN shorter \cup {Append(s, c) : s \in {t \in shorter : Len(t) = n - 1}, c \in S}

RECURSIVE JoinWords(_)
JoinWords(ws) ==
    IF Len(ws) = 0 THEN <<>>
    ELSE IF Len(ws) = 1 THEN ws[1]
    ELSE ws[1] \o <<32>> \o JoinWords(Tail(ws))

Texts == {JoinWords(ws) : ws \in SeqsUpTo(Words, MaxWords)}

\* One-word texts, each a word of its own: the k-th is two letters, k written
\* in base 26 ("aa", "ab", ...).
CapText(k) == <<97 + (k \div 26), 97 + (k % 26)>>
CapTexts == {CapText(k) : k \in 0..(MaxCapTerms - 1)}

Min(a, b) == IF a < b THEN a ELSE b

\* ------------------------------------------------------------ string order

\* cmp.Less on strings: bytewise lexicographic order.
RECURSIVE Less(_, _)
Less(s, t) ==
    IF Len(t) = 0 THEN FALSE
    ELSE IF Len(s) = 0 THEN TRUE
    ELSE IF s[1] < t[1] THEN TRUE
    ELSE IF s[1] > t[1] THEN FALSE
    ELSE Less(Tail(s), Tail(t))

\* --------------------------------------------------------------- tokenizer

\* unicode.IsLetter, unicode.IsNumber and the lowercase mapping of
\* strings.ToLower, for the code points below 256. IsNumber is the Unicode
\* category N: the decimal digits, and also the superscripts 2, 3, 1 and the
\* fractions 1/4, 1/2, 3/4.
IsLetter(r) ==
    \/ r \in 65..90 \/ r \in 97..122
    \/ r \in {170, 181, 186} \/ r \in 192..214 \/ r \in 216..246 \/ r \in 248..255
IsNumber(r) == r \in 48..57 \/ r \in {178, 179, 185, 188, 189, 190}
ToLower(r) == IF r \in 65..90 \/ r \in 192..214 \/ r \in 216..222 THEN r + 32 ELSE r

\* DefaultTokenizer: the maximal letter/digit runs of the lowercased text.
RECURSIVE TokenizeFrom(_, _, _, _)
TokenizeFrom(text, i, token, out) ==
    IF i > Len(text)
    THEN IF Len(token) > 0 THEN Append(out, token) ELSE out
    ELSE LET r == ToLower(text[i])
         IN IF IsLetter(r) \/ IsNumber(r)
            THEN TokenizeFrom(text, i + 1, Append(token, r), out)
            ELSE IF Len(token) > 0
                 THEN TokenizeFrom(text, i + 1, <<>>, Append(out, token))
                 ELSE TokenizeFrom(text, i + 1, token, out)

\* Mutant of DefaultTokenizer: the token still in the builder when the text
\* ends is not yielded.
DefaultTokenizerNoFlush(text) ==
    LET out == TokenizeFrom(text, 1, <<>>, <<>>)
    IN IF text = <<>> THEN out
       ELSE LET r == ToLower(text[Len(text)])
            IN IF IsLetter(r) \/ IsNumber(r) THEN SubSeq(out, 1, Len(out) - 1) ELSE out

DefaultTokenizer(text) == TokenizeFrom(text, 1, <<>>, <<>>)

\* for term := range seq, left by break once limit terms have been taken:
\* the iterator returns when yield reports false.
Take(seq, limit) == SubSeq(seq, 1, Min(limit, Len(seq)))

\* ------------------------------------------------------------ term filters

\* A filter that yields the stop words and drops the rest.
StopTermFilterInverted(words, seq) == LET Stop(term) == term \in words IN SelectSeq(seq, Stop)

StopTermFilter(words, seq) == LET NotStop(term) == term \notin words IN SelectSeq(seq, NotStop)
WithMinLenTermFilter(minLen, seq) == LET Long(term) == Len(term) >= minLen IN SelectSeq(seq, Long)
WithMaxLenTermFilter(maxLen, seq) == LET Short(term) == Len(term) <= maxLen IN SelectSeq(seq, Short)

\* The two term transforms of TestTermFilter: strings.ToUpper, and the first
\* character of the term lowercased.
ToUpper(r) == IF r \in 97..122 THEN r - 32 ELSE r
StringsToUpper(term) == [i \in 1..Len(term) |-> ToUpper(term[i])]
LowerFirstChar(term) == [i \in 1..Len(term) |-> IF i = 1 THEN ToLower(term[i]) ELSE term[i]]

\* filter(term), for the transform of the given name.
\* strings.TrimPrefix(term, prefix), a caller's transformation that returns
\* the empty string for the term that is the prefix itself.
TrimPrefix(term, prefix) ==
    IF Len(term) >= Len(prefix) /\ SubSeq(term, 1, Len(prefix)) = prefix
    THEN SubSeq(term, Len(prefix) + 1, Len(term))
    ELSE term

CallFilter(filter, term) ==
    CASE filter = "ToUpper" -> StringsToUpper(term)
      [] filter = "LowerFirstChar" -> LowerFirstChar(term)
      [] filter = "TrimPrefixA" -> TrimPrefix(term, <<97>>)

\* A helper that yields every transformed term, the empty ones too.
TermFilterFuncKeepsEmpty(filter, seq) ==
    [i \in 1..Len(seq) |-> CallFilter(filter, seq[i])]

\* TermFilterFunc(filter): every term is transformed, an empty result is
\* skipped.
TermFilterFunc(filter, seq) ==
    LET NotEmpty(term) == term # <<>>
    IN SelectSeq([i \in 1..Len(seq) |-> CallFilter(filter, seq[i])], NotEmpty)

\* One configured filter applied to the previous stage's output.
ApplyFilter(filter, seq) ==
    CASE filter.kind = "Stop" -> StopTermFilter(filter.words, seq)
      [] filter.kind = "MinLen" -> WithMinLenTermFilter(filter.n, seq)
      [] filter.kind = "MaxLen" -> WithMaxLenTermFilter(filter.n, seq)
      [] filter.kind \in {"ToUpper", "LowerFirstChar", "TrimPrefixA"} ->
            TermFilterFunc(filter.kind, seq)

RECURSIVE ApplyFilters(_, _, _)
ApplyFilters(filters, i, seq) ==
    IF i > Len(filters) THEN seq
    ELSE ApplyFilters(filters, i + 1, ApplyFilter(filters[i], seq))

\* The tokens of every text of the model, computed once.
Tokens == [text \in Texts \cup CapTexts |-> DefaultTokenizer(text)]

\* Mutant of tokenize: the filters run from the last registered to the first.
tokenizeLastFirst(filters, text) ==
    ApplyFilters([i \in 1..Len(filters) |-> filters[Len(filters) + 1 - i]], 1, Tokens[text])

\* Corpus.tokenize: the tokenizer, then every filter in registration order.
tokenize(filters, text) == ApplyFilters(filters, 1, Tokens[text])

\* -------------------------------------------------------------------- maps

\* The empty Go map.
EmptyMap == [t \in {} |-> 0]

\* Mutant of MapInc: the count is set, not incremented.
MapIncSetsOne(m, k) ==
    IF k \in DOMAIN m THEN [m EXCEPT ![k] = 1] ELSE m @@ (k :> 1)

\* m[k]++ on a Go map: a missing key reads as 0.
MapInc(m, k) ==
    IF k \in DOMAIN m THEN [m EXCEPT ![k] = @ + 1] ELSE m @@ (k :> 1)

\* delete(m, k)
MapDelete(m, k) == [x \in DOMAIN m \ {k} |-> m[x]]

\* m[k] with Go's zero value for a missing key.
MapGet(m, k) == IF k \in DOMAIN m THEN m[k] ELSE 0

\* m[k] = v
MapPut(m, k, v) == IF k \in DOMAIN m THEN [m EXCEPT ![k] = v] ELSE m @@ (k :> v)

\* Map objects live in a heap, a function from references (1, 2, ...) to map
\* values; two holders of one reference see each other's writes.

\* The heap with the objects nobody in keep refers to collected.
Live(h, keep) == [r \in DOMAIN h \cap keep |-> h[r]]

\* The reference a newly made object gets: the first one free.
NewRef(h) == CHOOSE n \in 1..(Cardinality(DOMAIN h) + 1) :
                 n \notin DOMAIN h /\ \A m \in 1..(n - 1) : m \in DOMAIN h

\* utils.Pool over the scratch maps; held is what the pool's sync.Pool holds.
\* A scratch map is used by one caller between Get and the Put at its return,
\* so it is modelled by its value.

\* p.internal.New(), that is p.New(): make(map[...]), a map made anew.
PoolNew == EmptyMap

\* Prepare of seenTermPool and termFreqPool: every key of v is deleted.
PoolPrepare(v) == [k \in DOMAIN v \ DOMAIN v |-> v[k]]

\* A Get that hands out a map the pool holds, as it was put.
PoolGetUnprepared(held) ==
    IF held = {}
    THEN [map |-> PoolNew, held |-> held, made |-> TRUE]
    ELSE LET v == CHOOSE x \in held : TRUE
         IN [map |-> v, held |-> held \ {v}, made |-> FALSE]

\* Pool.Get: p.Prepare(p.internal.New().(T)).  The sync.Pool's New field is
\* called, not its Get method: a map is made and what the pool holds stays
\* where it is.
PoolGet(held) == [map |-> PoolPrepare(PoolNew), held |-> held, made |-> TRUE]

\* Pool.Put: p.internal.Put(v)
PoolPut(held, v) == held \cup {v}

\* Mutant of MapsClone: the map itself is handed out.
MapsCloneShares(h, ref) == [heap |-> h, ref |-> ref]

\* maps.Clone(m), m the object at ref: a new object with the entries of m.
MapsClone(h, ref) ==
    LET n == NewRef(h) IN [heap |-> h @@ (n :> h[ref]), ref |-> n]

\* -------------------------------------------------------------- sorted set

\* slices.BinarySearch: the zero-based position of v in s, or where it would
\* be inserted.
RECURSIVE BinarySearchFrom(_, _, _, _)
BinarySearchFrom(s, v, i, j) ==
    IF i >= j THEN i
    ELSE LET h == (i + j) \div 2
         IN IF Less(s[h + 1], v)
            THEN BinarySearchFrom(s, v, h + 1, j)
            ELSE BinarySearchFrom(s, v, i, h)

\* Mutant of BinarySearch: an element not found belongs at the end.
BinarySearchAtEnd(s, v) ==
    IF \E k \in 1..Len(s) : s[k] = v
    THEN [i |-> (CHOOSE k \in 1..Len(s) : s[k] = v) - 1, found |-> TRUE]
    ELSE [i |-> Len(s), found |-> FALSE]

BinarySearch(s, v) ==
    LET i == BinarySearchFrom(s, v, 0, Len(s))
    IN [i |-> i, found |-> i < Len(s) /\ s[i + 1] = v]

\* Mutant of SliceInsert: the element at the position is overwritten.
SliceInsertOverwrites(s, i, v) == SubSeq(s, 1, i) \o <<v>> \o SubSeq(s, i + 2, Len(s))

\* slices.Insert(s, i, v) and slices.Delete(s, i, i+1), i zero-based.
SliceInsert(s, i, v) == SubSeq(s, 1, i) \o <<v>> \o SubSeq(s, i + 1, Len(s))
SliceDelete(s, i) == SubSeq(s, 1, i) \o SubSeq(s, i + 2, Len(s))

\* Mutant of SortedSetAdd: a new value goes to the end of the slice.
SortedSetAddAppends(set, v) ==
    IF v \in {set[i] : i \in 1..Len(set)} THEN set ELSE Append(set, v)

\* SortedSet.Add
SortedSetAdd(set, v) ==
    LET s == IF Len(set) = 0 THEN <<v>> ELSE set
        r == BinarySearch(s, v)
    IN IF r.found THEN s ELSE SliceInsert(s, r.i, v)

\* A Remove that deletes at the position found whether or not the value is
\* there.
SortedSetRemoveUnchecked(set, v) ==
    IF Len(set) = 0 THEN set ELSE SliceDelete(set, BinarySearch(set, v).i)

\* SortedSet.Remove
SortedSetRemove(set, v) ==
    IF Len(set) = 0 THEN set
    ELSE LET r == BinarySearch(set, v)
         IN IF ~r.found THEN set ELSE SliceDelete(set, r.i)

\* SortedSet.Contains
SortedSetContains(set, v) ==
    IF Len(set) = 0 THEN FALSE ELSE BinarySearch(set, v).found

\* SortedSet.Clear: s.set = nil
SortedSetClear(set) == <<>>

Range(s) == {s[i] : i \in 1..Len(s)}

\* ------------------------------------------------------------- prune hooks

\* Mutant of PruneLessThan: a term in exactly count documents goes too.
PruneLessThanOrEqual(count, docs, freq) == {term \in DOMAIN freq : freq[term] <= count}

PruneLessThan(count, docs, freq) == {term \in DOMAIN freq : freq[term] < count}
PruneLessThanPercent(percent, docs, freq) ==
    {term \in DOMAIN freq : freq[term] < (docs * percent) \div 100}
PruneMoreThan(count, docs, freq) == {term \in DOMAIN freq : freq[term] > count}
\* Mutant of PruneMoreThanPercent: a term in exactly the percentage goes too.
PruneAtLeastPercent(percent, docs, freq) ==
    {term \in DOMAIN freq : freq[term] >= (docs * percent) \div 100}

PruneMoreThanPercent(percent, docs, freq) ==
    {term \in DOMAIN freq : freq[term] > (docs * percent) \div 100}

\* A caller-written PruneHook whose answer depends on the whole map it is
\* given: it drops the lexicographically first term.
PruneFirstTerm(docs, freq) ==
    {term \in DOMAIN freq : \A other \in DOMAIN freq : ~Less(other, term)}

\* hook(documents, termFreq): the terms the hook returns (a Go slice in map
\* iteration order; the deletions it drives commute, so a set).
RunHook(hook, docs, freq) ==
    CASE hook.kind = "LessThan" -> PruneLessThan(hook.n, docs, freq)
      [] hook.kind = "LessThanPercent" -> PruneLessThanPercent(hook.n, docs, freq)
      [] hook.kind = "MoreThan" -> PruneMoreThan(hook.n, docs, freq)
      [] hook.kind = "MoreThanPercent" -> PruneMoreThanPercent(hook.n, docs, freq)
      [] hook.kind = "FirstTerm" -> PruneFirstTerm(docs, freq)

\* ------------------------------------------------------------------ corpus

\* A corpus value: the mutable fields of Corpus guarded by c.mu.
\*   termFreq  : map term -> documents it occurs in
\*   termIndex : sorted slice of the SortedSet
\*   documents : documents indexed
\*   hasPruned : hooks have run since the last IndexDocument

\* New: the mutable fields after construction.
NewCorpus ==
    [termFreq |-> EmptyMap, termIndex |-> <<>>, documents |-> 0, hasPruned |-> FALSE]

\* Mutant of DoReset: the term index is not cleared.
DoResetKeepsIndex(c) == [c EXCEPT !.termFreq = EmptyMap, !.documents = 0]

\* Reset
DoReset(c) ==
    [c EXCEPT !.termFreq = EmptyMap, !.termIndex = <<>>, !.documents = 0]

\* Mutant of IndexTerm: every occurrence counts, seen or not.
IndexTermEveryOccurrence(st, term) ==
    [c |-> [st.c EXCEPT !.termFreq = MapInc(@, term),
                        !.termIndex = SortedSetAdd(@, term)],
     seen |-> st.seen \cup {term}]

\* IndexDocument, one turn of the loop over the tokens: st = [c, seen].
IndexTerm(st, term) ==
    IF term \in st.seen THEN st
    ELSE [c |-> [st.c EXCEPT !.termFreq = MapInc(@, term),
                             !.termIndex = SortedSetAdd(@, term)],
          seen |-> st.seen \cup {term}]

RECURSIVE IndexTerms(_, _, _)
IndexTerms(st, tokens, i) ==
    IF i > Len(tokens) THEN st
    ELSE IndexTerms(IndexTerm(st, tokens[i]), tokens, i + 1)

\* Mutant of IndexFinish: the document is not counted.
IndexFinishKeepsCount(c) == [c EXCEPT !.hasPruned = FALSE]

\* An IndexDocument that counts the document and leaves hasPruned alone.
IndexFinishLeavesFlag(c) == [c EXCEPT !.documents = @ + 1]

\* IndexDocument, after the loop: c.documents++; c.hasPruned = false.
IndexFinish(c) == [c EXCEPT !.documents = @ + 1, !.hasPruned = FALSE]

\* Mutant of DoIndexDocument: the tokenizer is used without the term filters.
DoIndexDocumentUnfiltered(c, filters, text) ==
    IndexFinish(IndexTerms([c |-> c, seen |-> {}], Tokens[text], 1).c)

\* IndexDocument(text) as one critical section; seenTerms is a map freshly
\* made or cleared by the pool's Prepare.
DoIndexDocument(c, filters, text) ==
    IndexFinish(IndexTerms([c |-> c, seen |-> {}], tokenize(filters, text), 1).c)

\* Mutant of PruneSkips: the hooks run again although nothing was indexed.
PruneSkipsIgnoresFlag(c, hooks) == c.documents = 0 \/ Len(hooks) = 0

\* Mutant of PruneSkips: the hooks run on a corpus with no document.
PruneSkipsIgnoresEmpty(c, hooks) == c.hasPruned \/ Len(hooks) = 0

\* Prune: the early return.
PruneSkips(c, hooks) == c.hasPruned \/ c.documents = 0 \/ Len(hooks) = 0

\* Mutant of HookArg: a hook is handed the live map.
HookArgLive(c, snapshot) == c.termFreq

\* Prune: the map a hook is handed (the clone made before the loop).
HookArg(c, snapshot) == snapshot

\* Mutant of RemoveTerm: the term stays in the term index.
RemoveTermFromMapOnly(c, term) == [c EXCEPT !.termFreq = MapDelete(@, term)]

\* Prune, the inner loop body: delete(c.termFreq, term); c.termIndex.Remove(term).
RemoveTerm(c, term) ==
    [c EXCEPT !.termFreq = MapDelete(@, term), !.termIndex = SortedSetRemove(@, term)]

RECURSIVE RemoveTerms(_, _)
RemoveTerms(c, terms) ==
    IF terms = {} THEN c
    ELSE LET term == CHOOSE t \in terms : TRUE
         IN RemoveTerms(RemoveTerm(c, term), terms \ {term})

\* Prune, the loop over the hooks in registration order. calls records, per
\* hook invocation, the hook and the arguments it was handed.
RECURSIVE RunHooks(_, _, _, _, _)
RunHooks(c, hooks, i, snapshot, calls) ==
    IF i > Len(hooks) THEN [c |-> c, calls |-> calls]
    ELSE LET arg == HookArg(c, snapshot)
             toRemove == RunHook(hooks[i], c.documents, arg)
         IN RunHooks(RemoveTerms(c, toRemove), hooks, i + 1, snapshot,
                     Append(calls, [hook |-> i, documents |-> c.documents, termFreq |-> arg]))

\* Mutant of DoPrune: the corpus is left dirty.
DoPruneLeavesDirty(c, hooks) ==
    IF PruneSkips(c, hooks) THEN [c |-> c, calls |-> <<>>]
    ELSE RunHooks(c, hooks, 1, c.termFreq, <<>>)

\* Prune as one critical section: [c, calls].
DoPrune(c, hooks) ==
    IF PruneSkips(c, hooks) THEN [c |-> c, calls |-> <<>>]
    ELSE LET r == RunHooks(c, hooks, 1, c.termFreq, <<>>)
         IN [c |-> [r.c EXCEPT !.hasPruned = TRUE], calls |-> r.calls]

\* --------------------------------------------------------------- vectorizer

\* float32 values by class: "zero", "pos", "neg", "inf", "ninf", "nan".

\* float32(termFreq[term]) / float32(totalTerms)
Tf(count, totalTerms) ==
    IF totalTerms = 0 THEN (IF count = 0 THEN "nan" ELSE "inf")
    ELSE IF count = 0 THEN "zero" ELSE "pos"

\* math32.Log(float32(c.documents)/float32(c.termFreq[term])) + 1
\* (ln(x) + 1 > 0 iff x > 1/e; 2718/1000 < e < 2719/1000)
Idf(docs, df) ==
    IF df = 0 THEN (IF docs = 0 THEN "nan" ELSE "inf")
    ELSE IF docs = 0 THEN "ninf"
    ELSE IF 2719 * docs > 1000 * df THEN "pos" ELSE "neg"

\* tf * idf
Mul(x, y) ==
    IF x = "nan" \/ y = "nan" THEN "nan"
    ELSE IF x = "zero" THEN (IF y \in {"inf", "ninf"} THEN "nan" ELSE "zero")
    ELSE IF x = "inf" THEN (IF y \in {"pos", "inf"} THEN "inf" ELSE "ninf")
    ELSE y

\* CreateVector, the local term count of the text.
RECURSIVE CountTerms(_, _, _)
CountTerms(freq, tokens, i) ==
    IF i > Len(tokens) THEN freq
    ELSE CountTerms(MapInc(freq, tokens[i]), tokens, i + 1)

\* Mutant of TermAt: the coordinates run from the last term down.
TermAtReversed(c, i) == c.termIndex[Len(c.termIndex) - i]

\* CreateVector: the term of coordinate i, c.termIndex.All()[i].
TermAt(c, i) == c.termIndex[i + 1]

\* Mutant of VectorSize: the cap is not applied.
VectorSizeUncapped(c, maxSize) == Len(c.termIndex)

\* CreateVector: len(vector) = min(len(c.termIndex.All()), c.maxVectorSize)
VectorSize(c, maxSize) == Min(Len(c.termIndex), maxSize)

\* CreateVector, the TF-IDF loop over c.termIndex.All()[:len(vector)], given
\* the local frequency table and the number of terms counted.
ScoresOf(c, maxSize, localFreq, totalTerms) ==
    [i \in 1..VectorSize(c, maxSize) |->
          Mul(Tf(MapGet(localFreq, TermAt(c, i - 1)), totalTerms),
              Idf(c.documents, MapGet(c.termFreq, TermAt(c, i - 1))))]

\* The loop on a local frequency table that starts empty.
Scores(c, maxSize, tokens) ==
    ScoresOf(c, maxSize, CountTerms(EmptyMap, tokens, 1), Len(tokens))

\* sqrt of the sum of the squares
Magnitude(vec) ==
    IF \E i \in 1..Len(vec) : vec[i] = "nan" THEN "nan"
    ELSE IF \E i \in 1..Len(vec) : vec[i] \in {"inf", "ninf"} THEN "inf"
    ELSE IF \E i \in 1..Len(vec) : vec[i] \in {"pos", "neg"} THEN "pos"
    ELSE "zero"

\* if magnitude > 0 { vector[i] /= magnitude }
Normalize(vec) ==
    LET m == Magnitude(vec)
    IN IF m = "pos" THEN vec
       ELSE IF m = "inf"
            THEN [i \in 1..Len(vec) |->
                    IF vec[i] \in {"inf", "ninf"} THEN "nan" ELSE "zero"]
            ELSE vec

\* What a call leaves in place of a vector when make([]float32, n) panics.
Panic == <<"panic">>

\* CreateVector, the section under the read lock; make panics on a negative
\* length.
ReadVector(c, maxSize, filters, text) ==
    IF VectorSize(c, maxSize) < 0 THEN Panic
    ELSE Normalize(Scores(c, maxSize, tokenize(filters, text)))

\* A CreateVector that enters the terms of the text into the vocabulary.
DoCreateVectorIndexes(c, maxSize, hooks, filters, text) ==
    LET p == DoPrune(c, hooks)
        q == IndexTerms([c |-> p.c, seen |-> {}], tokenize(filters, text), 1).c
    IN [c |-> q, calls |-> p.calls, vector |-> ReadVector(q, maxSize, filters, text)]

\* CreateVector by a caller running alone: Prune, then the read section.
DoCreateVector(c, maxSize, hooks, filters, text) ==
    LET p == DoPrune(c, hooks)
    IN [c |-> p.c, calls |-> p.calls, vector |-> ReadVector(p.c, maxSize, filters, text)]

\* Mutant of PadVector: the padding is one component short.
PadVectorShort(vec, maxSize) ==
    IF Len(vec) < maxSize
    THEN vec \o [i \in 1..(maxSize - Len(vec) - 1) |-> "zero"]
    ELSE vec

\* CreatePaddedVector: the vector padded with zeros to maxVectorSize.
PadVector(vec, maxSize) ==
    IF Len(vec) < maxSize
    THEN vec \o [i \in 1..(maxSize - Len(vec)) |-> "zero"]
    ELSE vec

\* CreatePaddedVector by a caller running alone; a panic of CreateVector
\* passes through it.
DoCreatePaddedVector(c, maxSize, hooks, filters, text) ==
    LET r == DoCreateVector(c, maxSize, hooks, filters, text)
    IN [r EXCEPT !.vector = IF @ = Panic THEN Panic ELSE PadVector(@, maxSize)]

\* IsNoMatchVector: no component differs from 0 (a NaN does).
IsNoMatchVector(vec) == \A i \in 1..Len(vec) : vec[i] = "zero"

\* ----------------------------------------------------------- used capacity

\* A positive float32 value held exactly: sig / 2^scale, sig of at most 24
\* bits (0 is sig = 0). The operands here are integers below 2^24, which
\* float32(int) converts without rounding.

\* Round to nearest, ties to even: q is the quotient kept, twiceRem / unit
\* the part dropped, as a fraction of twice the last place.
RoundToEven(q, twiceRem, unit) ==
    IF twiceRem > unit \/ (twiceRem = unit /\ q % 2 = 1) THEN q + 1 ELSE q

\* Long division by m: quotient bits are produced until the quotient has 24.
RECURSIVE DivideFrom(_, _, _, _)
DivideFrom(q, r, m, k) ==
    IF q >= 2^23 THEN [q |-> q, r |-> r, k |-> k]
    ELSE IF 2 * r >= m THEN DivideFrom(2 * q + 1, 2 * r - m, m, k + 1)
         ELSE DivideFrom(2 * q, 2 * r, m, k + 1)

\* float32(n) / float32(m), n >= 0, m > 0.
Float32Quo(n, m) ==
    IF n = 0 THEN [sig |-> 0, scale |-> 0]
    ELSE LET d == DivideFrom(n \div m, n % m, m, 0)
         IN [sig |-> RoundToEven(d.q, 2 * d.r, m), scale |-> d.k]

\* x * 100 in float32: the exact product, rounded to 24 bits.
Float32Times100(x) ==
    LET p == x.sig * 100
        s == CHOOSE i \in 0..8 : p \div 2^i < 2^24 /\ (i = 0 \/ p \div 2^(i - 1) >= 2^24)
    IN [sig |-> RoundToEven(p \div 2^s, 2 * (p % 2^s), 2^s), scale |-> x.scale - s]

\* int(x): the fraction is dropped.
Float32ToInt(x) ==
    IF x.scale > 24 THEN 0
    ELSE IF x.scale >= 0 THEN x.sig \div 2^x.scale
    ELSE x.sig * 2^(0 - x.scale)

\* GetUsedCapacity: int(float32(len(c.termFreq)) / float32(c.maxVectorSize) * 100).
\* (Each intermediate float32 value is bound once it is computed.)
DoGetUsedCapacity(c, maxSize) ==
    LET quotient == {Float32Quo(Cardinality(DOMAIN c.termFreq), maxSize)}
        product == {Float32Times100(x) : x \in quotient}
    IN CHOOSE percent \in {Float32ToInt(x) : x \in product} : TRUE

\* ----------------------------------------------------------- configuration

\* The maxVectorSize New sets before the options run.
DefaultMaxVectorSize == 256

\* The term "ab".
TermAB == <<97, 98>>

\* WithMaxVectorSize(size): c.maxVectorSize = size, whatever the size.
WithMaxVectorSize(size) == size

\* The option lists handed to New: WithMaxVectorSize, WithTermFilters,
\* WithPruneHooks.
Configs ==
    { [maxVectorSize |-> 4, termFilters |-> <<>>, pruneHooks |-> <<>>],
      [maxVectorSize |-> 2, termFilters |-> <<>>,
       pruneHooks |-> <<[kind |-> "MoreThanPercent", n |-> 50]>>],
      [maxVectorSize |-> 2, termFilters |-> <<[kind |-> "Stop", words |-> {TermAB}]>>,
       pruneHooks |-> <<[kind |-> "LessThan", n |-> 2], [kind |-> "MoreThan", n |-> 2]>>],
      [maxVectorSize |-> 3, termFilters |-> <<[kind |-> "MinLen", n |-> 1], [kind |-> "MaxLen", n |-> 1]>>,
       pruneHooks |-> <<[kind |-> "FirstTerm"], [kind |-> "FirstTerm"]>>],
      [maxVectorSize |-> 1, termFilters |-> <<>>,
       pruneHooks |-> <<[kind |-> "LessThanPercent", n |-> 100]>>] }

\* ------------------------------------------------------------------- state

VARIABLES
    maxVectorSize,  \* Corpus.maxVectorSize
    termFilters,    \* Corpus.termFilters
    pruneHooks,     \* Corpus.pruneHooks
    termFreq,       \* Corpus.termFreq
    termIndex,      \* Corpus.termIndex (the slice of the SortedSet)
    documents,      \* Corpus.documents
    hasPruned,      \* Corpus.hasPruned
    op,             \* the last call completed
    vector,         \* the vector the last CreateVector / CreatePaddedVector returned
    retFreq,        \* the map the last GetTermFrequency returned
    retCount,       \* the number the last GetDocumentCount / GetUsedCapacity returned
    hookCalls,      \* the hook invocations of the last call
    docsWith,       \* history: per term, documents containing it indexed since New / Reset
    docsSince,      \* history: the same, counted since the term was last pruned
    cleanPrunes,    \* history: Prune runs, direct or by CreateVector, since the last IndexDocument (capped at 2)
    muWriter,       \* c.mu: the caller holding the write lock, 0 when none
    muReaders,      \* c.mu: the callers holding the read lock
    pc,             \* per concurrent caller: where it is in its call
    toks,           \* per caller in IndexDocument: the tokens still to loop over
    seen,           \* per caller in IndexDocument: its seenTerms
    calls,          \* calls the concurrent callers have started
    applied,        \* history: the corpus as the last completed write section left it
    arg,            \* log: the text the vectors are made of, NoArg before the first
    made,           \* log: the first and the latest CreateVector run for it: the vector returned, the hooks run
    twin,           \* log: a corpus built by New at the last Reset and handed the same calls, with its last results
    indexed,        \* log: the bag of the documents indexed since New / Reset
    yielded,        \* log: the first and the latest run of the tokenizer over the text: the terms taken, the most the caller takes
    heap,           \* the caller-visible map objects, by reference
    termFreqRef,    \* the reference Corpus.termFreq holds
    retRef,         \* the reference the last GetTermFrequency returned, 0 when none
    members,        \* history: the elements added to the SortedSet and not removed or cleared since
    retContains,    \* what the last Contains returned
    retAll,         \* what the last All returned
    seenTermPool,   \* the maps c.seenTermPool's sync.Pool holds
    termFreqPool,   \* the maps c.termFreqPool's sync.Pool holds
    checkedOut      \* per caller: the map its Get returned and has not Put yet, with what Get did

config == <<maxVectorSize, termFilters, pruneHooks>>
corpus == <<termFreq, termIndex, documents, hasPruned>>
returns == <<vector, retFreq, retCount>>
history == <<docsWith, docsSince, cleanPrunes>>
callers == <<muWriter, muReaders, pc, toks, seen, calls, applied>>
log == <<arg, made, twin, indexed, yielded>>
refs == <<heap, termFreqRef, retRef>>
sets == <<members, retContains, retAll>>
pools == <<seenTermPool, termFreqPool, checkedOut>>
vars == <<config, corpus, op, returns, hookCalls, history, callers, log, refs, sets, pools>>

Threads == 1..NumThreads

\* A caller that holds no scratch map.
NotCheckedOut == [pool |-> "none"]

\* The corpus value of the current state.
Corpus ==
    [termFreq |-> termFreq, termIndex |-> termIndex,
     documents |-> documents, hasPruned |-> hasPruned]

SetCorpus(c) ==
    /\ termFreq' = c.termFreq
    /\ termIndex' = c.termIndex
    /\ documents' = c.documents
    /\ hasPruned' = c.hasPruned

\* No vector has been made (no text holds a negative code).
NoArg == <<-1>>

\* What a call that returns nothing leaves in <<vector, retFreq, retCount>>.
NoReturns == <<<<>>, EmptyMap, 0>>

NoReturn ==
    /\ vector' = <<>>
    /\ retFreq' = EmptyMap
    /\ retCount' = 0

\* History bookkeeping of a Prune that made the given hook calls.
PruneHistory(before, after) ==
    /\ docsWith' = docsWith
    /\ docsSince' = [t \in DOMAIN docsSince |->
                       IF t \in DOMAIN before.termFreq \ DOMAIN after.termFreq
                       THEN 0 ELSE docsSince[t]]

InitWith(cfgs) ==
    /\ \E cfg \in cfgs :
         /\ maxVectorSize = cfg.maxVectorSize
         /\ termFilters = cfg.termFilters
         /\ pruneHooks = cfg.pruneHooks
    /\ termFreq = NewCorpus.termFreq
    /\ termIndex = NewCorpus.termIndex
    /\ documents = NewCorpus.documents
    /\ hasPruned = NewCorpus.hasPruned
    /\ op = "New"
    /\ vector = <<>>
    /\ retFreq = EmptyMap
    /\ retCount = 0
    /\ hookCalls = <<>>
    /\ docsWith = EmptyMap
    /\ docsSince = EmptyMap
    /\ cleanPrunes = 0
    /\ muWriter = 0
    /\ muReaders = {}
    /\ pc = [th \in Threads |-> "idle"]
    /\ toks = [th \in Threads |-> <<>>]
    /\ seen = [th \in Threads |-> {}]
    /\ calls = 0
    /\ applied = NewCorpus
    /\ arg = NoArg
    /\ made = <<>>
    /\ twin = [c |-> NewCorpus, returns |-> NoReturns]
    /\ indexed = EmptyBag
    /\ yielded = <<>>
    /\ heap = (1 :> EmptyMap)
    /\ termFreqRef = 1
    /\ retRef = 0
    /\ members = {}
    /\ retContains = FALSE
    /\ retAll = <<>>
    /\ seenTermPool = {}
    /\ termFreqPool = {}
    /\ checkedOut = [th \in Threads |-> NotCheckedOut]

Init == InitWith(Configs)

\* ------------------------------------------------- calls by a single caller

\* IndexDocument(text), called while fewer than maxDocs documents are indexed.
IndexDocumentUpTo(maxDocs, text) ==
    /\ documents < maxDocs
    /\ SetCorpus(DoIndexDocument(Corpus, termFilters, text))
    /\ op' = "IndexDocument"
    /\ NoReturn
    /\ hookCalls' = <<>>
    /\ LET present == Range(tokenize(termFilters, text))
           Count(h) == [t \in DOMAIN h \cup present |->
                          MapGet(h, t) + (IF t \in present THEN 1 ELSE 0)]
       IN /\ docsWith' = Count(docsWith)
          /\ docsSince' = Count(docsSince)
    /\ cleanPrunes' = 0
    /\ UNCHANGED <<config, callers>>

IndexDocument(text) == IndexDocumentUpTo(MaxDocs, text)

Prune ==
    /\ LET r == DoPrune(Corpus, pruneHooks)
       IN /\ SetCorpus(r.c)
          /\ hookCalls' = r.calls
          /\ PruneHistory(Corpus, r.c)
    /\ op' = "Prune"
    /\ NoReturn
    /\ cleanPrunes' = Min(cleanPrunes + 1, 2)
    /\ UNCHANGED <<config, callers>>

Reset ==
    /\ SetCorpus(DoReset(Corpus))
    /\ op' = "Reset"
    /\ NoReturn
    /\ hookCalls' = <<>>
    /\ docsWith' = EmptyMap
    /\ docsSince' = EmptyMap
    /\ UNCHANGED <<config, cleanPrunes, callers>>

CreateVector(text) ==
    /\ LET r == DoCreateVector(Corpus, maxVectorSize, pruneHooks, termFilters, text)
       IN /\ SetCorpus(r.c)
          /\ hookCalls' = r.calls
          /\ vector' = r.vector
          /\ PruneHistory(Corpus, r.c)
    /\ op' = "CreateVector"
    /\ retFreq' = EmptyMap
    /\ retCount' = 0
    /\ cleanPrunes' = Min(cleanPrunes + 1, 2)
    /\ UNCHANGED <<config, callers>>

CreatePaddedVector(text) ==
    /\ LET r == DoCreatePaddedVector(Corpus, maxVectorSize, pruneHooks, termFilters, text)
       IN /\ SetCorpus(r.c)
          /\ hookCalls' = r.calls
          /\ vector' = r.vector
          /\ PruneHistory(Corpus, r.c)
    /\ op' = "CreatePaddedVector"
    /\ retFreq' = EmptyMap
    /\ retCount' = 0
    /\ cleanPrunes' = Min(cleanPrunes + 1, 2)
    /\ UNCHANGED <<config, callers>>

GetTermFrequency ==
    /\ retFreq' = termFreq
    /\ op' = "GetTermFrequency"
    /\ vector' = <<>>
    /\ retCount' = 0
    /\ hookCalls' = <<>>
    /\ UNCHANGED <<config, corpus, history, callers>>

GetDocumentCount ==
    /\ retCount' = documents
    /\ op' = "GetDocumentCount"
    /\ vector' = <<>>
    /\ retFreq' = EmptyMap
    /\ hookCalls' = <<>>
    /\ UNCHANGED <<config, corpus, history, callers>>

GetUsedCapacity ==
    /\ retCount' = DoGetUsedCapacity(Corpus, maxVectorSize)
    /\ op' = "GetUsedCapacity"
    /\ vector' = <<>>
    /\ retFreq' = EmptyMap
    /\ hookCalls' = <<>>
    /\ UNCHANGED <<config, corpus, history, callers>>

Next ==
    \/ \E text \in Texts : IndexDocument(text) /\ UNCHANGED <<log, refs, sets, pools>>
    \/ Prune /\ UNCHANGED <<log, refs, sets, pools>>
    \/ Reset /\ UNCHANGED <<log, refs, sets, pools>>
    \/ \E text \in Texts : CreateVector(text) /\ UNCHANGED <<log, refs, sets, pools>>
    \/ \E text \in Texts : CreatePaddedVector(text) /\ UNCHANGED <<log, refs, sets, pools>>
    \/ GetTermFrequency /\ UNCHANGED <<log, refs, sets, pools>>
    \/ GetDocumentCount /\ UNCHANGED <<log, refs, sets, pools>>

Spec == Init /\ [][Next]_vars

\* ------------------------------------- calls by a single caller, logged

\* The corpora built for the logged calls.
LogConfigs ==
    { [maxVectorSize |-> 2, termFilters |-> <<>>,
       pruneHooks |-> <<[kind |-> "MoreThanPercent", n |-> 50]>>],
      [maxVectorSize |-> 3, termFilters |-> <<[kind |-> "MinLen", n |-> 1], [kind |-> "MaxLen", n |-> 1]>>,
       pruneHooks |-> <<[kind |-> "FirstTerm"]>>],
      [maxVectorSize |-> 1, termFilters |-> <<[kind |-> "Stop", words |-> {TermAB}]>>,
       pruneHooks |-> <<>>] }

\* A logged run is the documented use of the corpus: the documents are
\* indexed, with any Prune, Reset and reads in between, and then the vectors
\* of one text are made, again and again, padded or not.

\* The log of the vectors after CreateVector ran the hook calls and returned vec.
Made(vec, hooks) ==
    LET run == [vector |-> vec, hooks |-> Len(hooks)]
    IN IF made = <<>> THEN <<run>> ELSE <<made[1], run>>

\* The twin after a call that left it the corpus c and returned ret.
Twin(c, ret) == [c |-> c, returns |-> ret]

LogIndexDocument(text) ==
    /\ arg = NoArg
    /\ IndexDocument(text)
    /\ twin' = Twin(DoIndexDocument(twin.c, termFilters, text), NoReturns)
    /\ UNCHANGED <<arg, made, indexed, yielded, refs, sets, pools>>

LogPrune ==
    /\ arg = NoArg
    /\ Prune
    /\ twin' = Twin(DoPrune(twin.c, pruneHooks).c, NoReturns)
    /\ UNCHANGED <<arg, made, indexed, yielded, refs, sets, pools>>

LogReset ==
    /\ arg = NoArg
    /\ Reset
    /\ twin' = Twin(NewCorpus, NoReturns)
    /\ UNCHANGED <<arg, made, indexed, yielded, refs, sets, pools>>

LogCreateVector(text) ==
    /\ arg \in {NoArg, text}
    /\ CreateVector(text)
    /\ arg' = text
    /\ made' = Made(vector', hookCalls')
    /\ LET r == DoCreateVector(twin.c, maxVectorSize, pruneHooks, termFilters, text)
       IN twin' = Twin(r.c, <<r.vector, EmptyMap, 0>>)
    /\ UNCHANGED <<indexed, yielded, refs, sets, pools>>

LogCreatePaddedVector(text) ==
    /\ arg \in {NoArg, text}
    /\ CreatePaddedVector(text)
    /\ arg' = text
    /\ made' = Made(DoCreateVector(Corpus, maxVectorSize, pruneHooks, termFilters, text).vector,
                    hookCalls')
    /\ LET r == DoCreatePaddedVector(twin.c, maxVectorSize, pruneHooks, termFilters, text)
       IN twin' = Twin(r.c, <<r.vector, EmptyMap, 0>>)
    /\ UNCHANGED <<indexed, yielded, refs, sets, pools>>

LogGetTermFrequency ==
    /\ arg = NoArg
    /\ GetTermFrequency
    /\ twin' = Twin(twin.c, <<<<>>, twin.c.termFreq, 0>>)
    /\ UNCHANGED <<arg, made, indexed, yielded, refs, sets, pools>>

LogGetDocumentCount ==
    /\ arg = NoArg
    /\ GetDocumentCount
    /\ twin' = Twin(twin.c, <<<<>>, EmptyMap, twin.c.documents>>)
    /\ UNCHANGED <<arg, made, indexed, yielded, refs, sets, pools>>

LogInit == InitWith(LogConfigs)

LogNext ==
    \/ \E text \in Texts : LogIndexDocument(text)
    \/ LogPrune
    \/ LogReset
    \/ \E text \in Texts : LogCreateVector(text)
    \/ \E text \in Texts : LogCreatePaddedVector(text)
    \/ LogGetTermFrequency
    \/ LogGetDocumentCount

LogSpec == LogInit /\ [][LogNext]_vars

\* ------------------------------------ a corpus built with a size not positive

\* The corpora built with WithMaxVectorSize(n), n <= 0.
OptConfigs ==
    { [maxVectorSize |-> WithMaxVectorSize(n), termFilters |-> <<>>,
       pruneHooks |-> <<[kind |-> "MoreThanPercent", n |-> 50]>>] : n \in {-1, 0} }

\* The last call panicked: the program is gone.
Panicked == vector = Panic

OptInit == InitWith(OptConfigs)

OptNext ==
    \/ \E text \in Texts : ~Panicked /\ IndexDocument(text) /\ UNCHANGED <<log, refs, sets, pools>>
    \/ \E text \in Texts : ~Panicked /\ CreateVector(text) /\ UNCHANGED <<log, refs, sets, pools>>
    \/ \E text \in Texts : ~Panicked /\ CreatePaddedVector(text) /\ UNCHANGED <<log, refs, sets, pools>>

OptSpec == OptInit /\ [][OptNext]_vars

\* ------------------------------------- documents indexed in every order

\* The documents are indexed in any order, with no Prune in between; the
\* bag of the documents indexed since New / Reset is kept.
OrderIndexDocument(text) ==
    /\ IndexDocument(text)
    /\ indexed' = indexed (+) SetToBag({text})
    /\ UNCHANGED <<arg, made, twin, yielded, refs, sets, pools>>

OrderReset ==
    /\ Reset
    /\ indexed' = EmptyBag
    /\ UNCHANGED <<arg, made, twin, yielded, refs, sets, pools>>

OrderInit == InitWith(LogConfigs)

OrderNext ==
    \/ \E text \in Texts : OrderIndexDocument(text)
    \/ OrderReset

OrderSpec == OrderInit /\ [][OrderNext]_vars

\* ------------------------------------- filters whose order matters

\* The corpora built with WithTermFilters(f1, f2), two filters that do not
\* commute, in either order; the first is the corpus of TestTermFilter.
FilterConfigs ==
    { [maxVectorSize |-> 3, termFilters |-> <<[kind |-> f], [kind |-> g]>>, pruneHooks |-> <<>>] :
        f, g \in {"ToUpper", "LowerFirstChar"} }
    \cup
    { [maxVectorSize |-> 3, termFilters |-> fs, pruneHooks |-> <<>>] :
        fs \in { <<[kind |-> "ToUpper"], [kind |-> "Stop", words |-> {TermAB}]>>,
                 <<[kind |-> "Stop", words |-> {TermAB}], [kind |-> "ToUpper"]>> } }

FilterInit == InitWith(FilterConfigs)

\* The texts handed to these corpora: "", "a", "b", "Ab" and "a Ab".
FilterTexts == {JoinWords(ws) : ws \in SeqsUpTo(Words, 1)} \cup {JoinWords(<<<<97>>, <<65, 98>>>>)}

\* The documents are indexed, then vectors are made of one text.
FilterNext ==
    \/ \E text \in FilterTexts : arg = NoArg /\ OrderIndexDocument(text)
    \/ \E text \in FilterTexts : LogCreateVector(text)

FilterSpec == FilterInit /\ [][FilterNext]_vars

\* ------------------------------------------------- the tokenizer alone

\* The characters of the texts: "a", "B", "1", superscript two and the space.
Runes == {97, 66, 49, 178, 32}
RuneTexts == SeqsUpTo(Runes, MaxRunes)

\* A caller ranges over DefaultTokenizer(text) and leaves the loop after at
\* most limit terms, on one text again and again.
Tokenize(text, limit) ==
    /\ arg \in {NoArg, text}
    /\ arg' = text
    /\ LET run == [terms |-> Take(DefaultTokenizer(text), limit), limit |-> limit]
       IN yielded' = IF yielded = <<>> THEN <<run>> ELSE <<yielded[1], run>>
    /\ op' = "DefaultTokenizer"
    /\ UNCHANGED <<config, corpus, returns, hookCalls, history, callers,
                   made, twin, indexed, refs, sets, pools>>

\* The corpus of TestDefaultTokenizer: New().
TokConfigs ==
    { [maxVectorSize |-> DefaultMaxVectorSize, termFilters |-> <<>>, pruneHooks |-> <<>>] }

TokInit == InitWith(TokConfigs)

\* The caller breaks after the first term, or never (no text has more than
\* MaxRunes terms).
TokNext ==
    \E text \in (IF arg = NoArg THEN RuneTexts ELSE {arg}), limit \in {1, MaxRunes} :
        Tokenize(text, limit)

TokSpec == TokInit /\ [][TokNext]_vars

\* ------------------------------ slices.Collect(corp.tokenize(text)), filtered
\* The stop-word lists of the callers: none, one word, the lowered form of a
\* capitalised word, a capitalised word, every word.
StopWordSets ==
    { {}, {<<97>>}, {TermAB}, {<<65, 98>>}, {<<97>>, <<98>>, TermAB} }

\* The transformations handed to TermFilterFunc.
FilterFuncs == {"ToUpper", "LowerFirstChar", "TrimPrefixA"}

\* New(WithTermFilters(StopTermFilter(words))), as in TestStopTermFilter, and
\* New(WithTermFilters(TermFilterFunc(f), ...)), as in TestTermFilter.
CollectConfigs ==
    { [maxVectorSize |-> DefaultMaxVectorSize,
       termFilters |-> <<[kind |-> "Stop", words |-> words]>>,
       pruneHooks |-> <<>>] : words \in StopWordSets }
    \cup
    { [maxVectorSize |-> DefaultMaxVectorSize,
       termFilters |-> <<[kind |-> f]>>,
       pruneHooks |-> <<>>] : f \in FilterFuncs }
    \cup
    { [maxVectorSize |-> DefaultMaxVectorSize,
       termFilters |-> <<[kind |-> "TrimPrefixA"], later>>,
       pruneHooks |-> <<>>] :
         later \in {[kind |-> "ToUpper"], [kind |-> "Stop", words |-> {<<98>>}]} }

\* A caller ranges over c.tokenize(text) and breaks after `limit` terms;
\* the first and the latest run are kept.
Collect(text, limit) ==
    /\ arg \in {NoArg, text}
    /\ arg' = text
    /\ LET run == [terms |-> Take(tokenize(termFilters, text), limit), limit |-> limit]
       IN yielded' = IF yielded = <<>> THEN <<run>> ELSE <<yielded[1], run>>
    /\ op' = "tokenize"
    /\ UNCHANGED <<config, corpus, returns, hookCalls, history, callers,
                   made, twin, indexed, refs, sets, pools>>

CollectInit == InitWith(CollectConfigs)

\* The caller breaks after the first term, or never (no text has more than
\* MaxWords terms).
CollectNext ==
    \E text \in (IF arg = NoArg THEN Texts ELSE {arg}), limit \in {1, MaxWords} :
        Collect(text, limit)

CollectSpec == CollectInit /\ [][CollectNext]_vars

\* ------------------------------------------------- a SortedSet[string] alone
\* The set is the one a corpus holds in termIndex, empty after New; the
\* caller works on it directly.  Values: "A", "a", "ab", "b".
SetValues == {<<65>>, <<97>>, <<97, 98>>, <<98>>}

\* What every call on the set leaves alone.
SetFrame ==
    /\ NoReturn
    /\ hookCalls' = <<>>
    /\ UNCHANGED <<config, termFreq, documents, hasPruned, history, callers,
                   made, twin, indexed, yielded, refs, pools>>

Add(v) ==
    /\ termIndex' = SortedSetAdd(termIndex, v)
    /\ members' = members \cup {v}
    /\ op' = "Add"
    /\ arg' = v
    /\ UNCHANGED <<retContains, retAll>>
    /\ SetFrame

Remove(v) ==
    /\ termIndex' = SortedSetRemove(termIndex, v)
    /\ members' = members \ {v}
    /\ op' = "Remove"
    /\ arg' = v
    /\ UNCHANGED <<retContains, retAll>>
    /\ SetFrame

Contains(v) ==
    /\ retContains' = SortedSetContains(termIndex, v)
    /\ op' = "Contains"
    /\ arg' = v
    /\ UNCHANGED <<termIndex, members, retAll>>
    /\ SetFrame

All ==
    /\ retAll' = termIndex
    /\ op' = "All"
    /\ arg' = NoArg
    /\ UNCHANGED <<termIndex, members, retContains>>
    /\ SetFrame

Clear ==
    /\ termIndex' = SortedSetClear(termIndex)
    /\ members' = {}
    /\ op' = "Clear"
    /\ arg' = NoArg
    /\ UNCHANGED <<retContains, retAll>>
    /\ SetFrame

SetInit == InitWith(TokConfigs)

SetNext ==
    \/ \E v \in SetValues : Add(v)
    \/ \E v \in SetValues : Remove(v)
    \/ \E v \in SetValues : Contains(v)
    \/ All
    \/ Clear

SetSpec == SetInit /\ [][SetNext]_vars

\* ------------------------------------------------------ the scratch pools
\* Concurrent callers of IndexDocument and CreateVector on New(), with the
\* maps they take from seenTermPool and termFreqPool.  No hook is configured,
\* so the Prune that opens CreateVector returns at once.

\* The texts: "a" and "b a".
PoolTexts == {<<97>>, <<98, 32, 97>>}

\* The caller's record of a Get: the pool, the map (which the caller then
\* writes to), its keys as Get returned it, what the pool held when Get was
\* called, and whether Get made the map.
Checkout(pool, got, heldBefore) ==
    [pool |-> pool, map |-> got.map, entries |-> DOMAIN got.map,
     held |-> heldBefore, made |-> got.made]

HoldsMap(th) == checkedOut[th].pool # "none"

\* IndexDocument: c.mu.Lock(); seenTerms := c.seenTermPool.Get()
PoolIndexDocumentGet(th, text) ==
    /\ pc[th] = "idle"
    /\ muWriter = 0 /\ muReaders = {}
    /\ documents < MaxDocs
    /\ muWriter' = th
    /\ LET got == PoolGet(seenTermPool)
       IN /\ seenTermPool' = got.held
          /\ checkedOut' = [checkedOut EXCEPT ![th] = Checkout("seenTermPool", got, seenTermPool)]
    /\ toks' = [toks EXCEPT ![th] = tokenize(termFilters, text)]
    /\ pc' = [pc EXCEPT ![th] = "IndexDocument"]
    /\ UNCHANGED <<config, corpus, op, returns, hookCalls, history, muReaders, seen,
                   calls, applied, log, refs, sets, termFreqPool>>

\* IndexDocument: the loop over the terms, with seenTerms as Get returned it;
\* c.documents++; c.hasPruned = false.
PoolIndexDocumentLoop(th) ==
    /\ pc[th] = "IndexDocument"
    /\ checkedOut[th].pool = "seenTermPool"
    /\ LET st == IndexTerms([c |-> Corpus, seen |-> DOMAIN checkedOut[th].map], toks[th], 1)
       IN /\ SetCorpus(IndexFinish(st.c))
          /\ checkedOut' = [checkedOut EXCEPT ![th].map = [term \in st.seen |-> 0]]
    /\ pc' = [pc EXCEPT ![th] = "IndexDocumentReturn"]
    /\ UNCHANGED <<config, op, returns, hookCalls, history, muWriter, muReaders, toks,
                   seen, calls, applied, log, refs, sets, seenTermPool, termFreqPool>>

\* IndexDocument returns: the deferred c.seenTermPool.Put(seenTerms) and
\* c.mu.Unlock().
PoolIndexDocumentPut(th) ==
    /\ pc[th] = "IndexDocumentReturn"
    /\ seenTermPool' = PoolPut(seenTermPool, checkedOut[th].map)
    /\ checkedOut' = [checkedOut EXCEPT ![th] = NotCheckedOut]
    /\ muWriter' = 0
    /\ pc' = [pc EXCEPT ![th] = "idle"]
    /\ toks' = [toks EXCEPT ![th] = <<>>]
    /\ op' = "IndexDocument"
    /\ NoReturn
    /\ UNCHANGED <<config, corpus, hookCalls, history, muReaders, seen, calls, applied,
                   log, refs, sets, termFreqPool>>

\* CreateVector: c.mu.RLock(); termFreq := c.termFreqPool.Get()
PoolCreateVectorGet(th, text) ==
    /\ pc[th] = "idle"
    /\ muWriter = 0
    /\ muReaders' = muReaders \cup {th}
    /\ LET got == PoolGet(termFreqPool)
       IN /\ termFreqPool' = got.held
          /\ checkedOut' = [checkedOut EXCEPT ![th] = Checkout("termFreqPool", got, termFreqPool)]
    /\ toks' = [toks EXCEPT ![th] = tokenize(termFilters, text)]
    /\ pc' = [pc EXCEPT ![th] = "CreateVector"]
    /\ UNCHANGED <<config, corpus, op, returns, hookCalls, history, muWriter, seen,
                   calls, applied, log, refs, sets, seenTermPool>>

\* CreateVector: the terms are counted into termFreq as Get returned it, and
\* the vector is computed from it.
PoolCreateVectorLoop(th) ==
    /\ pc[th] = "CreateVector"
    /\ checkedOut[th].pool = "termFreqPool"
    /\ LET localFreq == CountTerms(checkedOut[th].map, toks[th], 1)
       IN /\ checkedOut' = [checkedOut EXCEPT ![th].map = localFreq]
          /\ vector' = Normalize(ScoresOf(Corpus, maxVectorSize, localFreq, Len(toks[th])))
    /\ retFreq' = EmptyMap
    /\ retCount' = 0
    /\ pc' = [pc EXCEPT ![th] = "CreateVectorReturn"]
    /\ UNCHANGED <<config, corpus, op, hookCalls, history, muWriter, muReaders, toks,
                   seen, calls, applied, log, refs, sets, seenTermPool, termFreqPool>>

\* CreateVector returns: the deferred c.termFreqPool.Put(termFreq) and
\* c.mu.RUnlock().
PoolCreateVectorPut(th) ==
    /\ pc[th] = "CreateVectorReturn"
    /\ termFreqPool' = PoolPut(termFreqPool, checkedOut[th].map)
    /\ checkedOut' = [checkedOut EXCEPT ![th] = NotCheckedOut]
    /\ muReaders' = muReaders \ {th}
    /\ pc' = [pc EXCEPT ![th] = "idle"]
    /\ toks' = [toks EXCEPT ![th] = <<>>]
    /\ op' = "CreateVector"
    /\ UNCHANGED <<config, corpus, returns, hookCalls, history, muWriter, seen, calls,
                   applied, log, refs, sets, seenTermPool>>

\* A garbage collection empties the sync.Pools of what they hold.
PoolDrop ==
    /\ seenTermPool \cup termFreqPool # {}
    /\ seenTermPool' = {}
    /\ termFreqPool' = {}
    /\ UNCHANGED <<config, corpus, op, returns, hookCalls, history, callers, log,
                   refs, sets, checkedOut>>

PoolInit == InitWith(TokConfigs)

PoolNext ==
    \/ \E th \in Threads, text \in PoolTexts : PoolIndexDocumentGet(th, text)
    \/ \E th \in Threads : PoolIndexDocumentLoop(th)
    \/ \E th \in Threads : PoolIndexDocumentPut(th)
    \/ \E th \in Threads, text \in PoolTexts : PoolCreateVectorGet(th, text)
    \/ \E th \in Threads : PoolCreateVectorLoop(th)
    \/ \E th \in Threads : PoolCreateVectorPut(th)
    \/ PoolDrop

PoolSpec == PoolInit /\ [][PoolNext]_vars

\* ------------------------------------- index, prune, reset, index again
\* Corpora with hooks, handed IndexDocument, Prune, Reset and CreateVector in
\* every order.
DirtyConfigs ==
    { [maxVectorSize |-> 2, termFilters |-> <<>>,
       pruneHooks |-> <<[kind |-> "LessThan", n |-> 2]>>],
      [maxVectorSize |-> 2, termFilters |-> <<>>,
       pruneHooks |-> <<[kind |-> "FirstTerm"], [kind |-> "MoreThanPercent", n |-> 50]>>],
      [maxVectorSize |-> 1, termFilters |-> <<>>,
       pruneHooks |-> <<[kind |-> "MoreThan", n |-> 2]>>] }

\* The texts: "a" and "a b".
DirtyTexts == {<<97>>, <<97, 32, 98>>}

DirtyInit == InitWith(DirtyConfigs)

\* CreateVector(text), with the text kept.
DirtyCreateVector(text) ==
    /\ CreateVector(text)
    /\ arg' = text
    /\ UNCHANGED <<made, twin, indexed, yielded, refs, sets, pools>>

\* CreatePaddedVector(text), with the text kept.
DirtyCreatePaddedVector(text) ==
    /\ CreatePaddedVector(text)
    /\ arg' = text
    /\ UNCHANGED <<made, twin, indexed, yielded, refs, sets, pools>>

DirtyNext ==
    \/ \E text \in DirtyTexts : IndexDocument(text) /\ UNCHANGED <<log, refs, sets, pools>>
    \/ Prune /\ UNCHANGED <<log, refs, sets, pools>>
    \/ Reset /\ UNCHANGED <<log, refs, sets, pools>>
    \/ \E text \in DirtyTexts : DirtyCreateVector(text)
    \/ \E text \in DirtyTexts : DirtyCreatePaddedVector(text)

DirtySpec == DirtyInit /\ [][DirtyNext]_vars

\* ------------------------------------------- corpora with one stock hook

\* The percentages and the counts handed to the stock hooks.
Percents == {0, 25, 50, 75, 100}
Counts == {1, 2, 3}

\* The corpora built with WithPruneHooks(hook), one stock hook each, as
\* TestPrune builds them.
HookConfigs ==
    { [maxVectorSize |-> 3, termFilters |-> <<>>, pruneHooks |-> <<[kind |-> k, n |-> p]>>] :
        k \in {"LessThanPercent", "MoreThanPercent"}, p \in Percents }
    \cup
    { [maxVectorSize |-> 3, termFilters |-> <<>>, pruneHooks |-> <<[kind |-> k, n |-> n]>>] :
        k \in {"LessThan", "MoreThan"}, n \in Counts }

HookInit == InitWith(HookConfigs)

\* The calls of TestPrune: the documents are indexed, then Prune runs and the
\* vocabulary is read ("Do not run this until you have indexed all
\* documents").
HookNext ==
    \/ \E text \in Texts :
          ~hasPruned /\ IndexDocumentUpTo(MaxHookDocs, text) /\ UNCHANGED <<log, refs, sets, pools>>
    \/ Prune /\ UNCHANGED <<log, refs, sets, pools>>
    \/ GetTermFrequency /\ UNCHANGED <<log, refs, sets, pools>>

HookSpec == HookInit /\ [][HookNext]_vars

\* ------------------------------------------- corpora filling their capacity

\* The sizes handed to WithMaxVectorSize, and New's own.
Caps == {1, 3, 10, 100, DefaultMaxVectorSize}

CapConfigs ==
    { [maxVectorSize |-> WithMaxVectorSize(size), termFilters |-> <<>>, pruneHooks |-> <<>>] :
        size \in Caps }

CapInit == InitWith(CapConfigs)

\* Every document brings one new term; the used capacity is read at any time.
CapNext ==
    \/ \E text \in CapTexts :
          /\ text = CapText(documents)
          /\ IndexDocumentUpTo(MaxCapTerms, text)
          /\ UNCHANGED <<log, refs, sets, pools>>
    \/ GetUsedCapacity /\ UNCHANGED <<log, refs, sets, pools>>

CapSpec == CapInit /\ [][CapNext]_vars

\* ------------------------------------ a caller holding the returned map

\* The corpus built for the caller that keeps the map GetTermFrequency
\* returned, and writes to it.
HeapConfigs ==
    { [maxVectorSize |-> 2, termFilters |-> <<>>,
       pruneHooks |-> <<[kind |-> "MoreThanPercent", n |-> 50]>>] }

\* The term a caller writes to the map it holds: "a".
CallerTerms == {<<97>>}

\* IndexDocument writes to the map c.termFreq refers to.
HeapIndexDocument(text) ==
    /\ IndexDocument(text)
    /\ heap' = [heap EXCEPT ![termFreqRef] = termFreq']
    /\ UNCHANGED <<termFreqRef, retRef, log, sets, pools>>

\* Prune deletes from the map c.termFreq refers to; its snapshot is dropped.
HeapPrune ==
    /\ Prune
    /\ heap' = [heap EXCEPT ![termFreqRef] = termFreq']
    /\ UNCHANGED <<termFreqRef, retRef, log, sets, pools>>

\* Reset: c.termFreq = make(map[string]int), a new object.
HeapReset ==
    /\ Reset
    /\ LET kept == Live(heap, {retRef})
           n == NewRef(kept)
       IN /\ heap' = kept @@ (n :> EmptyMap)
          /\ termFreqRef' = n
    /\ UNCHANGED <<retRef, log, sets, pools>>

\* GetTermFrequency: return maps.Clone(c.termFreq); the caller lets go of
\* the map it held.
HeapGetTermFrequency ==
    /\ GetTermFrequency
    /\ LET r == MapsClone(Live(heap, {termFreqRef}), termFreqRef)
       IN /\ heap' = r.heap
          /\ retRef' = r.ref
    /\ UNCHANGED <<termFreqRef, log, sets, pools>>

\* The caller writes to the map it holds: m[term] = 0 or delete(m, term).
\* The corpus sees the write if its map is that object.
WriteReturned(term, delete) ==
    /\ retRef # 0
    /\ heap' = [heap EXCEPT ![retRef] = IF delete THEN MapDelete(@, term) ELSE MapPut(@, term, 0)]
    /\ termFreq' = heap'[termFreqRef]
    /\ op' = "WriteReturned"
    /\ NoReturn
    /\ hookCalls' = <<>>
    /\ UNCHANGED <<config, termIndex, documents, hasPruned, history, callers, log, termFreqRef, retRef, sets, pools>>

HeapInit == InitWith(HeapConfigs)

HeapNext ==
    \/ \E text \in Texts : HeapIndexDocument(text)
    \/ HeapPrune
    \/ HeapReset
    \/ HeapGetTermFrequency
    \/ \E term \in CallerTerms, delete \in BOOLEAN : WriteReturned(term, delete)

HeapSpec == HeapInit /\ [][HeapNext]_vars

\* ------------------------------------------------------ concurrent callers

\* The corpus built for the concurrent callers.
ConcConfigs ==
    { [maxVectorSize |-> 2, termFilters |-> <<>>,
       pruneHooks |-> <<[kind |-> "MoreThanPercent", n |-> 50]>>],
      [maxVectorSize |-> 4, termFilters |-> <<>>, pruneHooks |-> <<>>] }

\* c.mu.Lock() returns: no writer and no reader holds c.mu.
CanLock(writer, readers) == writer = 0 /\ readers = {}

\* Mutant of CanRLock: a reader does not wait for the writer.
CanRLockAlways(writer, readers) == TRUE

\* c.mu.RLock() returns: no writer holds c.mu.
CanRLock(writer, readers) == writer = 0

\* The sections a caller is in while it holds the write lock / the read lock.
WriteSections == {"IndexDocument", "Prune", "Reset", "CreateVector:Prune"}
ReadSections == {"CreateVector:Read", "GetTermFrequency", "GetDocumentCount"}

\* A caller starts a call that first takes the write lock.
Lock(th, section) ==
    /\ pc[th] = "idle"
    /\ calls < MaxCalls
    /\ CanLock(muWriter, muReaders)
    /\ muWriter' = th
    /\ pc' = [pc EXCEPT ![th] = section]
    /\ calls' = calls + 1

\* A caller leaves its write section for the section next.
Unlock(th, next) ==
    /\ muWriter' = 0
    /\ pc' = [pc EXCEPT ![th] = next]

\* IndexDocument: c.mu.Lock(); seenTerms := c.seenTermPool.Get(); the token
\* iterator is set up.
IndexDocumentLock(th, text) ==
    /\ documents < MaxDocs
    /\ Lock(th, "IndexDocument")
    /\ toks' = [toks EXCEPT ![th] = tokenize(termFilters, text)]
    /\ seen' = [seen EXCEPT ![th] = {}]
    /\ UNCHANGED <<config, corpus, op, returns, hookCalls, history, muReaders, applied>>

\* IndexDocument: one turn of the loop.
IndexDocumentTerm(th) ==
    /\ pc[th] = "IndexDocument"
    /\ toks[th] # <<>>
    /\ LET st == IndexTerm([c |-> Corpus, seen |-> seen[th]], Head(toks[th]))
       IN /\ SetCorpus(st.c)
          /\ seen' = [seen EXCEPT ![th] = st.seen]
    /\ toks' = [toks EXCEPT ![th] = Tail(@)]
    /\ UNCHANGED <<config, op, returns, hookCalls, history, muWriter, muReaders, pc, calls, applied>>

\* IndexDocument: c.documents++; c.hasPruned = false; the deferred Put and Unlock.
IndexDocumentUnlock(th) ==
    /\ pc[th] = "IndexDocument"
    /\ toks[th] = <<>>
    /\ LET c == IndexFinish(Corpus)
       IN SetCorpus(c) /\ applied' = c
    /\ seen' = [seen EXCEPT ![th] = {}]
    /\ Unlock(th, "idle")
    /\ UNCHANGED <<config, op, returns, hookCalls, history, muReaders, toks, calls>>

\* Prune: c.mu.Lock()
PruneLock(th) ==
    /\ Lock(th, "Prune")
    /\ UNCHANGED <<config, corpus, op, returns, hookCalls, history, muReaders, toks, seen, applied>>

\* Prune: the body and the deferred Unlock.
PruneUnlock(th) ==
    /\ pc[th] = "Prune"
    /\ LET c == DoPrune(Corpus, pruneHooks).c
       IN SetCorpus(c) /\ applied' = c
    /\ Unlock(th, "idle")
    /\ UNCHANGED <<config, op, returns, hookCalls, history, muReaders, toks, seen, calls>>

\* Reset: c.mu.Lock()
ResetLock(th) ==
    /\ Lock(th, "Reset")
    /\ UNCHANGED <<config, corpus, op, returns, hookCalls, history, muReaders, toks, seen, applied>>

\* Reset: the body and the deferred Unlock.
ResetUnlock(th) ==
    /\ pc[th] = "Reset"
    /\ LET c == DoReset(Corpus)
       IN SetCorpus(c) /\ applied' = c
    /\ Unlock(th, "idle")
    /\ UNCHANGED <<config, op, returns, hookCalls, history, muReaders, toks, seen, calls>>

\* CreateVector: c.Prune() takes the write lock.
CreateVectorPruneLock(th) ==
    /\ Lock(th, "CreateVector:Prune")
    /\ UNCHANGED <<config, corpus, op, returns, hookCalls, history, muReaders, toks, seen, applied>>

\* CreateVector: c.Prune() runs and returns, the write lock released.
CreateVectorPruneUnlock(th) ==
    /\ pc[th] = "CreateVector:Prune"
    /\ LET c == DoPrune(Corpus, pruneHooks).c
       IN SetCorpus(c) /\ applied' = c
    /\ Unlock(th, "CreateVector:RLock")
    /\ UNCHANGED <<config, op, returns, hookCalls, history, muReaders, toks, seen, calls>>

\* A caller takes the read lock and enters the read section.
RLock(th, from, section) ==
    /\ pc[th] = from
    /\ CanRLock(muWriter, muReaders)
    /\ muReaders' = muReaders \cup {th}
    /\ pc' = [pc EXCEPT ![th] = section]

\* A return that leaves the read lock held.
RUnlockForgotten(th) ==
    /\ muReaders' = muReaders
    /\ pc' = [pc EXCEPT ![th] = "idle"]

\* A caller leaves its read section.
RUnlock(th) ==
    /\ muReaders' = muReaders \ {th}
    /\ pc' = [pc EXCEPT ![th] = "idle"]

\* CreateVector: c.mu.RLock()
CreateVectorRLock(th) ==
    /\ RLock(th, "CreateVector:RLock", "CreateVector:Read")
    /\ UNCHANGED <<config, corpus, op, returns, hookCalls, history, muWriter, toks, seen, calls, applied>>

\* CreateVector: the vector is computed from the corpus and returned, the
\* read lock released. The text is first used here.
CreateVectorRead(th, text) ==
    /\ pc[th] = "CreateVector:Read"
    /\ vector' = ReadVector(Corpus, maxVectorSize, termFilters, text)
    /\ RUnlock(th)
    /\ UNCHANGED <<config, corpus, op, retFreq, retCount, hookCalls, history, muWriter, toks, seen, calls, applied>>

\* GetTermFrequency: c.mu.RLock()
GetTermFrequencyRLock(th) ==
    /\ calls < MaxCalls
    /\ RLock(th, "idle", "GetTermFrequency")
    /\ calls' = calls + 1
    /\ UNCHANGED <<config, corpus, op, returns, hookCalls, history, muWriter, toks, seen, applied>>

\* GetTermFrequency: the clone is returned, the read lock released.
GetTermFrequencyRead(th) ==
    /\ pc[th] = "GetTermFrequency"
    /\ retFreq' = termFreq
    /\ RUnlock(th)
    /\ UNCHANGED <<config, corpus, op, vector, retCount, hookCalls, history, muWriter, toks, seen, calls, applied>>

\* GetDocumentCount: c.mu.RLock()
GetDocumentCountRLock(th) ==
    /\ calls < MaxCalls
    /\ RLock(th, "idle", "GetDocumentCount")
    /\ calls' = calls + 1
    /\ UNCHANGED <<config, corpus, op, returns, hookCalls, history, muWriter, toks, seen, applied>>

\* GetDocumentCount: the count is returned, the read lock released.
GetDocumentCountRead(th) ==
    /\ pc[th] = "GetDocumentCount"
    /\ retCount' = documents
    /\ RUnlock(th)
    /\ UNCHANGED <<config, corpus, op, vector, retFreq, hookCalls, history, muWriter, toks, seen, calls, applied>>

ConcInit == InitWith(ConcConfigs)

ConcNext ==
    \E th \in Threads :
        \/ \E text \in Texts : IndexDocumentLock(th, text) /\ UNCHANGED <<log, refs, sets, pools>>
        \/ IndexDocumentTerm(th) /\ UNCHANGED <<log, refs, sets, pools>>
        \/ IndexDocumentUnlock(th) /\ UNCHANGED <<log, refs, sets, pools>>
        \/ PruneLock(th) /\ UNCHANGED <<log, refs, sets, pools>>
        \/ PruneUnlock(th) /\ UNCHANGED <<log, refs, sets, pools>>
        \/ ResetLock(th) /\ UNCHANGED <<log, refs, sets, pools>>
        \/ ResetUnlock(th) /\ UNCHANGED <<log, refs, sets, pools>>
        \/ CreateVectorPruneLock(th) /\ UNCHANGED <<log, refs, sets, pools>>
        \/ CreateVectorPruneUnlock(th) /\ UNCHANGED <<log, refs, sets, pools>>
        \/ CreateVectorRLock(th) /\ UNCHANGED <<log, refs, sets, pools>>
        \/ \E text \in Texts : CreateVectorRead(th, text) /\ UNCHANGED <<log, refs, sets, pools>>
        \/ GetTermFrequencyRLock(th) /\ UNCHANGED <<log, refs, sets, pools>>
        \/ GetTermFrequencyRead(th) /\ UNCHANGED <<log, refs, sets, pools>>
        \/ GetDocumentCountRLock(th) /\ UNCHANGED <<log, refs, sets, pools>>
        \/ GetDocumentCountRead(th) /\ UNCHANGED <<log, refs, sets, pools>>

ConcSpec == ConcInit /\ [][ConcNext]_vars

\* ------------------------------------------- concurrent callers, scheduled fairly
\* Every public method of the corpus, called by NumThreads callers,
\* MaxFairCalls calls in all.  A call is started, waits for c.mu, runs its section and
\* releases c.mu at return.  c.mu is a sync.RWMutex: Lock waits for the writer
\* and the readers to leave, RLock waits for the writer and for any caller
\* that waits in Lock.  The hook is side-effect free.

FairConfigs ==
    { [maxVectorSize |-> 2, termFilters |-> <<>>,
       pruneHooks |-> <<[kind |-> "MoreThanPercent", n |-> 50]>>] }

\* The texts: "a" and "b".
FairTexts == {<<97>>, <<98>>}

\* Where a caller waits in c.mu.Lock().
LockWaits ==
    {"IndexDocument:Lock", "Prune:Lock", "Reset:Lock", "CreateVector:Lock",
     "CreatePaddedVector:Lock"}

\* Where a caller waits in c.mu.RLock().
RLockWaits ==
    {"CreateVector:RLock", "CreatePaddedVector:RLock", "GetTermFrequency:RLock",
     "GetDocumentCount:RLock", "GetUsedCapacity:RLock"}

\* A caller has called Lock and has not got the lock yet.
WriterWaiting == \E th \in Threads : pc[th] \in LockWaits

\* A caller starts a call; its first statement takes c.mu.
StartCall(th, wait) ==
    /\ pc[th] = "idle"
    /\ calls < MaxFairCalls
    /\ pc' = [pc EXCEPT ![th] = wait]
    /\ calls' = calls + 1

\* c.mu.Lock() returns.
AcquireLock(th, wait, section) ==
    /\ pc[th] = wait
    /\ CanLock(muWriter, muReaders)
    /\ muWriter' = th
    /\ pc' = [pc EXCEPT ![th] = section]

\* c.mu.RLock() returns.
AcquireRLock(th, wait, section) ==
    /\ pc[th] = wait
    /\ CanRLock(muWriter, muReaders)
    /\ ~WriterWaiting
    /\ muReaders' = muReaders \cup {th}
    /\ pc' = [pc EXCEPT ![th] = section]

\* IndexDocument is called.
FairIndexDocumentCall(th) ==
    /\ StartCall(th, "IndexDocument:Lock")
    /\ UNCHANGED <<config, corpus, op, returns, hookCalls, history, muWriter, muReaders,
                   toks, seen, applied>>

\* IndexDocument: c.mu.Lock()
FairIndexDocumentLock(th) ==
    /\ AcquireLock(th, "IndexDocument:Lock", "IndexDocument")
    /\ UNCHANGED <<config, corpus, op, returns, hookCalls, history, muReaders, toks, seen,
                   calls, applied>>

\* IndexDocument: the body and the deferred Unlock.
FairIndexDocumentUnlock(th, text) ==
    /\ pc[th] = "IndexDocument"
    /\ LET c == DoIndexDocument(Corpus, termFilters, text)
       IN SetCorpus(c) /\ applied' = c
    /\ Unlock(th, "idle")
    /\ UNCHANGED <<config, op, returns, hookCalls, history, muReaders, toks, seen, calls>>

\* Prune is called.
FairPruneCall(th) ==
    /\ StartCall(th, "Prune:Lock")
    /\ UNCHANGED <<config, corpus, op, returns, hookCalls, history, muWriter, muReaders,
                   toks, seen, applied>>

\* Prune: c.mu.Lock()
FairPruneLock(th) ==
    /\ AcquireLock(th, "Prune:Lock", "Prune")
    /\ UNCHANGED <<config, corpus, op, returns, hookCalls, history, muReaders, toks, seen,
                   calls, applied>>

\* Prune: the body and the deferred Unlock.
FairPruneUnlock(th) ==
    /\ pc[th] = "Prune"
    /\ LET c == DoPrune(Corpus, pruneHooks).c
       IN SetCorpus(c) /\ applied' = c
    /\ Unlock(th, "idle")
    /\ UNCHANGED <<config, op, returns, hookCalls, history, muReaders, toks, seen, calls>>

\* Reset is called.
FairResetCall(th) ==
    /\ StartCall(th, "Reset:Lock")
    /\ UNCHANGED <<config, corpus, op, returns, hookCalls, history, muWriter, muReaders,
                   toks, seen, applied>>

\* Reset: c.mu.Lock()
FairResetLock(th) ==
    /\ AcquireLock(th, "Reset:Lock", "Reset")
    /\ UNCHANGED <<config, corpus, op, returns, hookCalls, history, muReaders, toks, seen,
                   calls, applied>>

\* Reset: the body and the deferred Unlock.
FairResetUnlock(th) ==
    /\ pc[th] = "Reset"
    /\ LET c == DoReset(Corpus)
       IN SetCorpus(c) /\ applied' = c
    /\ Unlock(th, "idle")
    /\ UNCHANGED <<config, op, returns, hookCalls, history, muReaders, toks, seen, calls>>

\* CreateVector is called; it calls c.Prune().
FairCreateVectorCall(th) ==
    /\ StartCall(th, "CreateVector:Lock")
    /\ UNCHANGED <<config, corpus, op, returns, hookCalls, history, muWriter, muReaders,
                   toks, seen, applied>>

\* CreateVector: c.Prune() takes the write lock.
FairCreateVectorPruneLock(th) ==
    /\ AcquireLock(th, "CreateVector:Lock", "CreateVector:Prune")
    /\ UNCHANGED <<config, corpus, op, returns, hookCalls, history, muReaders, toks, seen,
                   calls, applied>>

\* CreateVector: c.Prune() runs and returns, the write lock released.
FairCreateVectorPruneUnlock(th) ==
    /\ pc[th] = "CreateVector:Prune"
    /\ LET c == DoPrune(Corpus, pruneHooks).c
       IN SetCorpus(c) /\ applied' = c
    /\ Unlock(th, "CreateVector:RLock")
    /\ UNCHANGED <<config, op, returns, hookCalls, history, muReaders, toks, seen, calls>>

\* CreateVector: c.mu.RLock()
FairCreateVectorRLock(th) ==
    /\ AcquireRLock(th, "CreateVector:RLock", "CreateVector:Read")
    /\ UNCHANGED <<config, corpus, op, returns, hookCalls, history, muWriter, toks, seen,
                   calls, applied>>

\* CreateVector: the vector is computed and returned, the read lock released.
FairCreateVectorRead(th, text) ==
    /\ pc[th] = "CreateVector:Read"
    /\ vector' = ReadVector(Corpus, maxVectorSize, termFilters, text)
    /\ RUnlock(th)
    /\ UNCHANGED <<config, corpus, op, retFreq, retCount, hookCalls, history, muWriter, toks, seen, calls,
                   applied>>

\* CreatePaddedVector is called; it calls c.CreateVector(text).
FairCreatePaddedVectorCall(th) ==
    /\ StartCall(th, "CreatePaddedVector:Lock")
    /\ UNCHANGED <<config, corpus, op, returns, hookCalls, history, muWriter, muReaders,
                   toks, seen, applied>>

\* CreatePaddedVector, in CreateVector: c.Prune() takes the write lock.
FairCreatePaddedVectorPruneLock(th) ==
    /\ AcquireLock(th, "CreatePaddedVector:Lock", "CreatePaddedVector:Prune")
    /\ UNCHANGED <<config, corpus, op, returns, hookCalls, history, muReaders, toks, seen,
                   calls, applied>>

\* CreatePaddedVector, in CreateVector: c.Prune() returns.
FairCreatePaddedVectorPruneUnlock(th) ==
    /\ pc[th] = "CreatePaddedVector:Prune"
    /\ LET c == DoPrune(Corpus, pruneHooks).c
       IN SetCorpus(c) /\ applied' = c
    /\ Unlock(th, "CreatePaddedVector:RLock")
    /\ UNCHANGED <<config, op, returns, hookCalls, history, muReaders, toks, seen, calls>>

\* CreatePaddedVector, in CreateVector: c.mu.RLock()
FairCreatePaddedVectorRLock(th) ==
    /\ AcquireRLock(th, "CreatePaddedVector:RLock", "CreatePaddedVector:Read")
    /\ UNCHANGED <<config, corpus, op, returns, hookCalls, history, muWriter, toks, seen,
                   calls, applied>>

\* CreatePaddedVector: CreateVector returns, the read lock released; the
\* vector is padded.
FairCreatePaddedVectorRead(th, text) ==
    /\ pc[th] = "CreatePaddedVector:Read"
    /\ LET vec == ReadVector(Corpus, maxVectorSize, termFilters, text)
       IN vector' = IF vec = Panic THEN Panic ELSE PadVector(vec, maxVectorSize)
    /\ RUnlock(th)
    /\ UNCHANGED <<config, corpus, op, retFreq, retCount, hookCalls, history, muWriter, toks, seen, calls,
                   applied>>

\* GetTermFrequency is called.
FairGetTermFrequencyCall(th) ==
    /\ StartCall(th, "GetTermFrequency:RLock")
    /\ UNCHANGED <<config, corpus, op, returns, hookCalls, history, muWriter, muReaders,
                   toks, seen, applied>>

\* GetTermFrequency: c.mu.RLock()
FairGetTermFrequencyRLock(th) ==
    /\ AcquireRLock(th, "GetTermFrequency:RLock", "GetTermFrequency")
    /\ UNCHANGED <<config, corpus, op, returns, hookCalls, history, muWriter, toks, seen,
                   calls, applied>>

\* GetTermFrequency: the clone is returned, the read lock released.
FairGetTermFrequencyRead(th) ==
    /\ pc[th] = "GetTermFrequency"
    /\ retFreq' = termFreq
    /\ RUnlock(th)
    /\ UNCHANGED <<config, corpus, op, vector, retCount, hookCalls, history, muWriter, toks, seen, calls,
                   applied>>

\* GetDocumentCount is called.
FairGetDocumentCountCall(th) ==
    /\ StartCall(th, "GetDocumentCount:RLock")
    /\ UNCHANGED <<config, corpus, op, returns, hookCalls, history, muWriter, muReaders,
                   toks, seen, applied>>

\* GetDocumentCount: c.mu.RLock()
FairGetDocumentCountRLock(th) ==
    /\ AcquireRLock(th, "GetDocumentCount:RLock", "GetDocumentCount")
    /\ UNCHANGED <<config, corpus, op, returns, hookCalls, history, muWriter, toks, seen,
                   calls, applied>>

\* GetDocumentCount: the count is returned, the read lock released.
FairGetDocumentCountRead(th) ==
    /\ pc[th] = "GetDocumentCount"
    /\ retCount' = documents
    /\ RUnlock(th)
    /\ UNCHANGED <<config, corpus, op, vector, retFreq, hookCalls, history, muWriter, toks, seen, calls,
                   applied>>

\* GetUsedCapacity is called.
FairGetUsedCapacityCall(th) ==
    /\ StartCall(th, "GetUsedCapacity:RLock")
    /\ UNCHANGED <<config, corpus, op, returns, hookCalls, history, muWriter, muReaders,
                   toks, seen, applied>>

\* GetUsedCapacity: c.mu.RLock()
FairGetUsedCapacityRLock(th) ==
    /\ AcquireRLock(th, "GetUsedCapacity:RLock", "GetUsedCapacity")
    /\ UNCHANGED <<config, corpus, op, returns, hookCalls, history, muWriter, toks, seen,
                   calls, applied>>

\* GetUsedCapacity: the percentage is returned, the read lock released.
FairGetUsedCapacityRead(th) ==
    /\ pc[th] = "GetUsedCapacity"
    /\ retCount' = DoGetUsedCapacity(Corpus, maxVectorSize)
    /\ RUnlock(th)
    /\ UNCHANGED <<config, corpus, op, vector, retFreq, hookCalls, history, muWriter, toks, seen, calls,
                   applied>>

FairInit == InitWith(FairConfigs)

\* A caller starts a call.
FairCall(th) ==
    \/ FairIndexDocumentCall(th) /\ UNCHANGED <<log, refs, sets, pools>>
    \/ FairPruneCall(th) /\ UNCHANGED <<log, refs, sets, pools>>
    \/ FairResetCall(th) /\ UNCHANGED <<log, refs, sets, pools>>
    \/ FairCreateVectorCall(th) /\ UNCHANGED <<log, refs, sets, pools>>
    \/ FairCreatePaddedVectorCall(th) /\ UNCHANGED <<log, refs, sets, pools>>
    \/ FairGetTermFrequencyCall(th) /\ UNCHANGED <<log, refs, sets, pools>>
    \/ FairGetDocumentCountCall(th) /\ UNCHANGED <<log, refs, sets, pools>>
    \/ FairGetUsedCapacityCall(th) /\ UNCHANGED <<log, refs, sets, pools>>

\* A caller in a call takes its next step.
FairStep(th) ==
    \/ FairIndexDocumentLock(th) /\ UNCHANGED <<log, refs, sets, pools>>
    \/ (\E text \in FairTexts : FairIndexDocumentUnlock(th, text)) /\ UNCHANGED <<log, refs, sets, pools>>
    \/ FairPruneLock(th) /\ UNCHANGED <<log, refs, sets, pools>>
    \/ FairPruneUnlock(th) /\ UNCHANGED <<log, refs, sets, pools>>
    \/ FairResetLock(th) /\ UNCHANGED <<log, refs, sets, pools>>
    \/ FairResetUnlock(th) /\ UNCHANGED <<log, refs, sets, pools>>
    \/ FairCreateVectorPruneLock(th) /\ UNCHANGED <<log, refs, sets, pools>>
    \/ FairCreateVectorPruneUnlock(th) /\ UNCHANGED <<log, refs, sets, pools>>
    \/ FairCreateVectorRLock(th) /\ UNCHANGED <<log, refs, sets, pools>>
    \/ (\E text \in FairTexts : FairCreateVectorRead(th, text)) /\ UNCHANGED <<log, refs, sets, pools>>
    \/ FairCreatePaddedVectorPruneLock(th) /\ UNCHANGED <<log, refs, sets, pools>>
    \/ FairCreatePaddedVectorPruneUnlock(th) /\ UNCHANGED <<log, refs, sets, pools>>
    \/ FairCreatePaddedVectorRLock(th) /\ UNCHANGED <<log, refs, sets, pools>>
    \/ (\E text \in FairTexts : FairCreatePaddedVectorRead(th, text)) /\ UNCHANGED <<log, refs, sets, pools>>
    \/ FairGetTermFrequencyRLock(th) /\ UNCHANGED <<log, refs, sets, pools>>
    \/ FairGetTermFrequencyRead(th) /\ UNCHANGED <<log, refs, sets, pools>>
    \/ FairGetDocumentCountRLock(th) /\ UNCHANGED <<log, refs, sets, pools>>
    \/ FairGetDocumentCountRead(th) /\ UNCHANGED <<log, refs, sets, pools>>
    \/ FairGetUsedCapacityRLock(th) /\ UNCHANGED <<log, refs, sets, pools>>
    \/ FairGetUsedCapacityRead(th) /\ UNCHANGED <<log, refs, sets, pools>>

FairNext == \E th \in Threads : FairCall(th) \/ FairStep(th)

\* The scheduler lets every caller that can take a step of its call take it;
\* nobody has to start a call.
FairSpec ==
    /\ FairInit
    /\ [][FairNext]_vars
    /\ \A th \in Threads : WF_vars(FairStep(th))


\* ------------------------------------------------------------------ claims

\* The terms ever counted since New / Reset that are no longer in the vocabulary.
PrunedTerms == {t \in DOMAIN docsWith : docsWith[t] > 0} \ DOMAIN termFreq

\* Prune returns at once in this state.
PruneIsNoOp == hasPruned \/ documents = 0 \/ Len(pruneHooks) = 0

\* C1: in every reachable state the terms of the sorted term index are
\* exactly the keys of the document-frequency map.
C1_TermIndexIsKeys == Range(termIndex) = DOMAIN termFreq

\* C1 witness: a Prune has removed a term and left others.
C1_Witness ==
    /\ op = "Prune"
    /\ PrunedTerms # {}
    /\ DOMAIN termFreq # {}

\* C2 as stated: for every term of the vocabulary, the document frequency is
\* the number of documents indexed since New / Reset that contain the term,
\* whatever Prune calls came in between.
C2_AsStated == \A t \in DOMAIN termFreq : termFreq[t] = MapGet(docsWith, t)

\* C2 amended: for every term of the vocabulary, the document frequency is the
\* number of documents containing the term that were indexed since New, the
\* last Reset or the last Prune that removed the term, whichever came last.
C2_CountsSinceLastRemoval == \A t \in DOMAIN termFreq : termFreq[t] = MapGet(docsSince, t)

\* C2 witness: a term pruned earlier is back in the vocabulary.
C2_Witness ==
    \E t \in DOMAIN termFreq : MapGet(docsSince, t) < MapGet(docsWith, t)

\* The terms of the document an IndexDocument step indexes: those whose
\* history count moves.
IndexedTerms == {t \in DOMAIN docsWith' : docsWith'[t] # MapGet(docsWith, t)}

\* C3: an IndexDocument call adds exactly 1 to the document frequency of every
\* distinct term of the document, however often the term occurs in it, puts
\* the term in the term index, and leaves every other count as it was.
C3_IndexAddsOnePerTerm ==
    [][op' = "IndexDocument" =>
        /\ \A t \in DOMAIN termFreq \cup DOMAIN termFreq' \cup IndexedTerms :
              MapGet(termFreq', t) = MapGet(termFreq, t) + (IF t \in IndexedTerms THEN 1 ELSE 0)
        /\ Range(termIndex') = Range(termIndex) \cup IndexedTerms]_vars

\* C3 witness: the second document indexed has raised one count to 2 and left
\* another at 1.
C3_Witness ==
    /\ op = "IndexDocument"
    /\ documents = 2
    /\ \E t, u \in DOMAIN termFreq : termFreq[t] = 2 /\ termFreq[u] = 1

\* C4: every IndexDocument call adds exactly 1 to the document count and marks
\* the corpus dirty, Reset sets the count to 0, no other call changes it, and
\* GetDocumentCount returns it.
C4_DocumentCount ==
    [][/\ documents' = (IF op' = "IndexDocument" THEN documents + 1
                        ELSE IF op' = "Reset" THEN 0 ELSE documents)
       /\ op' = "IndexDocument" => ~hasPruned'
       /\ op' = "GetDocumentCount" => retCount' = documents]_vars

\* C4 witness: GetDocumentCount returns 2 after hooks have run.
C4_Witness ==
    /\ op = "GetDocumentCount"
    /\ retCount = 2
    /\ hasPruned

\* C5: a Prune call that follows another Prune call with no IndexDocument in
\* between changes nothing.
C5_SecondPruneChangesNothing ==
    [][op' = "Prune" /\ cleanPrunes >= 1 => UNCHANGED corpus]_vars

\* C5 witness: the second Prune in a row has returned, the first having
\* removed a term and left others.
C5_Witness ==
    /\ op = "Prune"
    /\ cleanPrunes = 2
    /\ hasPruned
    /\ PrunedTerms # {}
    /\ DOMAIN termFreq # {}

\* C6: Prune changes nothing when the corpus is not dirty, or holds no
\* document, or has no prune hook.
C6_PruneNoOp ==
    [][op' = "Prune" /\ PruneIsNoOp => UNCHANGED corpus]_vars

\* C6 witness: Prune has returned on a corpus with percentage hooks and no
\* document.
C6_Witness ==
    /\ op = "Prune"
    /\ documents = 0
    /\ ~hasPruned
    /\ \E i \in 1..Len(pruneHooks) :
          pruneHooks[i].kind \in {"LessThanPercent", "MoreThanPercent"}

\* C7: a Prune that runs its hooks calls every hook, in registration order,
\* with the document count and the same pre-prune document frequencies; the
\* vocabulary left is the old one less every term a hook returned, each
\* surviving term keeps its count, and the corpus is no longer dirty.
C7_PruneRunsHooks ==
    [][op' = "Prune" /\ ~PruneIsNoOp =>
        LET removed == UNION {RunHook(pruneHooks[i], documents, termFreq) :
                                i \in 1..Len(pruneHooks)}
        IN /\ hookCalls' = [i \in 1..Len(pruneHooks) |->
                              [hook |-> i, documents |-> documents, termFreq |-> termFreq]]
           /\ DOMAIN termFreq' = DOMAIN termFreq \ removed
           /\ \A t \in DOMAIN termFreq' : termFreq'[t] = termFreq[t]
           /\ Range(termIndex') = Range(termIndex) \ removed
           /\ documents' = documents
           /\ hasPruned']_vars

\* C7 witness: two hooks have run, a term is gone and another is left.
C7_Witness ==
    /\ op = "Prune"
    /\ Len(hookCalls) = 2
    /\ DOMAIN termFreq # {}
    /\ DOMAIN termFreq # DOMAIN hookCalls[2].termFreq

\* C8 as stated: whenever a caller of CreateVector computes its vector on a
\* corpus with a prune hook and a document, the corpus is not dirty.
C8_VectorReadsPrunedCorpus ==
    \A th \in Threads :
        pc[th] = "CreateVector:Read" =>
            (Len(pruneHooks) > 0 /\ documents > 0 => hasPruned)

\* C9: the write sections exclude every other section, and a caller in a read
\* section sees the corpus as the last completed write section left it: each
\* document wholly applied or not at all.
C9_NoPartialState ==
    \A th \in Threads :
        /\ pc[th] \in WriteSections =>
              \A other \in Threads \ {th} : pc[other] \notin WriteSections \cup ReadSections
        /\ pc[th] \in ReadSections => Corpus = applied

\* C9 witness: a CreateVector caller waits for the read lock while another
\* caller is part-way through IndexDocument.
C9_Witness ==
    \E r, w \in Threads :
        /\ pc[r] = "CreateVector:RLock"
        /\ pc[w] = "IndexDocument"
        /\ Corpus # applied

\* C10: the vector CreateVector returns has min(size of the pruned vocabulary,
\* maxVectorSize) components, never more than maxVectorSize.
C10_VectorLength ==
    op = "CreateVector" =>
        /\ Len(vector) = Min(Cardinality(DOMAIN termFreq), maxVectorSize)
        /\ Len(vector) <= maxVectorSize

\* C10 witness: the vocabulary is larger than the cap and the vector is cut.
C10_Witness ==
    /\ op = "CreateVector"
    /\ Cardinality(DOMAIN termFreq) > maxVectorSize
    /\ Len(vector) = maxVectorSize

\* The filtered terms of the text the vectors are made of, and how often the
\* term occurs among them.
ArgTerms == tokenize(termFilters, arg)
Occurrences(term) == Cardinality({k \in 1..Len(ArgTerms) : ArgTerms[k] = term})

\* The term with i terms before it in the lexicographic order of the vocabulary.
TermOfRank(i) ==
    CHOOSE t \in DOMAIN termFreq : Cardinality({u \in DOMAIN termFreq : Less(u, t)}) = i

\* The TF-IDF score of a term of the vocabulary for the text, before the
\* vector is normalised.
Score(term) == Mul(Tf(Occurrences(term), Len(ArgTerms)), Idf(documents, termFreq[term]))

\* C11: component i of the vector CreateVector returns is the score of the
\* term of zero-based rank i in the lexicographically sorted vocabulary as it
\* is when the vector is made; a vocabulary of more than maxVectorSize terms
\* gives a vector of maxVectorSize components, for the first terms only.
C11_ComponentIsRankedTerm ==
    op = "CreateVector" =>
        LET n == Min(Cardinality(DOMAIN termFreq), maxVectorSize)
        IN vector = Normalize([i \in 1..n |-> Score(TermOfRank(i - 1))])

\* C11 witness: the vocabulary is larger than the cap, the text holds a term
\* with a coordinate and a term without, and the vector is zero but for the
\* coordinate of the first.
C11_Witness ==
    /\ op = "CreateVector"
    /\ Cardinality(DOMAIN termFreq) > maxVectorSize
    /\ maxVectorSize = 2
    /\ vector = <<"zero", "pos">>
    /\ \E t \in Range(ArgTerms) \cap DOMAIN termFreq : t # TermOfRank(0) /\ t # TermOfRank(1)

\* C12 as stated: the vector CreateVector returns is all zeros if and only if
\* no filtered term of the text is in the vocabulary after pruning.
C12_ZeroIffNoKnownTerm ==
    op = "CreateVector" =>
        (IsNoMatchVector(vector) <=> Range(ArgTerms) \cap DOMAIN termFreq = {})

\* C13 as stated: for a text that yields no term, the vector CreateVector
\* returns is all zeros.
C13_NoTermsGivesZeroVector ==
    op = "CreateVector" /\ ArgTerms = <<>> => IsNoMatchVector(vector)

\* C14: the CreateVector calls of a run, made of one text with no
\* IndexDocument or Reset in between, return the same vector: the latest the
\* same as the first, which may have run the prune hooks.
C14_RepeatedVectorsEqual ==
    Len(made) = 2 => made[2].vector = made[1].vector

\* C14 witness: the first call ran the hooks, which removed a term, the
\* second ran none, and the vector has a non-zero component.
C14_Witness ==
    /\ op = "CreateVector"
    /\ Len(made) = 2
    /\ made[1].hooks > 0
    /\ made[2].hooks = 0
    /\ PrunedTerms # {}
    /\ \E i \in 1..Len(vector) : vector[i] = "pos"

\* C16: the vector CreatePaddedVector returns has exactly maxVectorSize
\* components: the components of the vector CreateVector returns for the
\* text, in its own call and in every call before, and then zeros.
C16_PaddedVector ==
    op = "CreatePaddedVector" =>
        /\ Len(vector) = maxVectorSize
        /\ \A k \in 1..Len(made) :
              /\ SubSeq(vector, 1, Len(made[k].vector)) = made[k].vector
              /\ \A i \in (Len(made[k].vector) + 1)..Len(vector) : vector[i] = "zero"

\* C16 witness: a vector with a non-zero component and fewer components than
\* maxVectorSize has been padded, after an earlier call for the same text.
C16_Witness ==
    /\ op = "CreatePaddedVector"
    /\ Len(made) = 2
    /\ Len(made[1].vector) > 0
    /\ Len(made[1].vector) < maxVectorSize
    /\ \E i \in 1..Len(vector) : vector[i] = "pos"

\* C17: Reset leaves no document, an empty document-frequency map and an
\* empty term index and does not touch the options; and whatever the calls
\* that follow, the corpus holds and returns what a corpus built by New with
\* the same options at the time of the Reset holds and returns.
C17_ResetIsNew ==
    [][/\ op' = "Reset" =>
            /\ documents' = 0
            /\ termFreq' = EmptyMap
            /\ termIndex' = <<>>
            /\ UNCHANGED config
       /\ twin'.returns = <<vector', retFreq', retCount'>>
       /\ twin'.c.termFreq = termFreq'
       /\ twin'.c.termIndex = termIndex'
       /\ twin'.c.documents = documents']_vars

\* C17 witness: the Reset found the hooks run and left the flag that says so,
\* which the twin built by New does not have, and a Prune has returned since.
C17_Witness ==
    /\ op = "Prune"
    /\ documents = 0
    /\ hasPruned
    /\ ~twin.c.hasPruned
    /\ PrunedTerms = {}

\* The zero-based rank of a term in a term index: its vector coordinate.
RankOf(index, term) == CHOOSE i \in 0..(Len(index) - 1) : index[i + 1] = term

\* The terms an IndexDocument step brings into the vocabulary.
NewTerms == Range(termIndex') \ Range(termIndex)

\* C15 as stated: no IndexDocument call changes the rank of a term that is
\* already in the vocabulary.
C15_AsStated ==
    [][op' = "IndexDocument" =>
        \A t \in Range(termIndex) : RankOf(termIndex', t) = RankOf(termIndex, t)]_vars

\* C15 amended: an IndexDocument call moves the rank of a term that is already
\* in the vocabulary up by the number of new terms that sort before it, and
\* so keeps the order of the old terms among themselves.
C15_RankShiftsByNewTerms ==
    [][op' = "IndexDocument" =>
        \A t \in Range(termIndex) :
            RankOf(termIndex', t) =
                RankOf(termIndex, t) + Cardinality({u \in NewTerms : Less(u, t)})]_vars

\* C15 witness: of two documents indexed, a term of both has rank 1 or more
\* behind a term of one.
C15_Witness ==
    /\ op = "IndexDocument"
    /\ documents = 2
    /\ \E t, u \in DOMAIN termFreq :
          /\ termFreq[t] = 2
          /\ termFreq[u] = 1
          /\ RankOf(termIndex, u) < RankOf(termIndex, t)

\* C20: an IndexDocument call for a text with no filtered term (the empty
\* text, separators only, or filtered-out terms only) leaves the document
\* frequencies and the term index as they were.
C20_EmptyDocumentAddsNothing ==
    [][op' = "IndexDocument" /\ IndexedTerms = {} => UNCHANGED <<termFreq, termIndex>>]_vars

\* C20 witness: on a corpus with term filters two documents have been
\* indexed, and one term has been counted, once: one of the documents had no
\* filtered term.
C20_Witness ==
    /\ op = "IndexDocument"
    /\ termFilters # <<>>
    /\ documents = 2
    /\ Cardinality(DOMAIN termFreq) = 1
    /\ \A t \in DOMAIN docsWith : docsWith[t] = 1 /\ termFreq[t] = 1

\* C18: the map GetTermFrequency returns holds the document frequencies of
\* the moment; a write of the caller to it changes nothing in the corpus, and
\* no later IndexDocument, Prune or Reset changes a map already returned.
C18_ReturnedMapIsCopy ==
    [][/\ op' = "GetTermFrequency" => heap'[retRef'] = termFreq /\ UNCHANGED corpus
       /\ op' = "WriteReturned" => UNCHANGED corpus
       /\ op' \in {"IndexDocument", "Prune", "Reset"} /\ retRef # 0 =>
              heap'[retRef] = heap[retRef]]_vars

\* C18 witness: a Prune has removed a term from the corpus while the caller
\* holds a map, written to since it was returned, that has the term.
C18_Witness ==
    /\ op = "Prune"
    /\ retRef # 0
    /\ PrunedTerms \cap DOMAIN heap[retRef] # {}
    /\ \E t \in DOMAIN heap[retRef] : heap[retRef][t] = 0

\* C19 as stated: on a corpus built with a maximum vector size that is not
\* positive, no IndexDocument, CreateVector or CreatePaddedVector call panics.
C19_NonPositiveSizeIsSafe == ~Panicked

\* The one hook of the corpus and the call Prune has just made to it.
TheHook == pruneHooks[1]
TheCall == hookCalls[1]
HookRan(kind) == op = "Prune" /\ Len(hookCalls) = 1 /\ TheHook.kind = kind

\* The terms handed to the hook whose document frequency is among the given.
TermsIn(freqs) == {t \in DOMAIN TheCall.termFreq : TheCall.termFreq[t] \in freqs}

\* The vocabulary left is the given terms, with the counts the hook saw.
Keeps(terms) ==
    /\ DOMAIN termFreq = terms
    /\ Range(termIndex) = terms
    /\ \A t \in terms : termFreq[t] = TheCall.termFreq[t]

\* C21: a Prune that runs PruneMoreThanPercent(p) removes exactly the terms
\* with documentFrequency * 100 > documentCount * p and keeps every other
\* term.
C21_MoreThanPercent ==
    HookRan("MoreThanPercent") =>
        Keeps(TermsIn({freq \in 1..TheCall.documents :
                          ~(freq * 100 > TheCall.documents * TheHook.n)}))

\* C21 witness: PruneMoreThanPercent(50) has run over 5 documents; a term in
\* 4 of them is gone and a term in 1 of them is left.
C21_Witness ==
    /\ HookRan("MoreThanPercent")
    /\ TheHook.n = 50
    /\ TheCall.documents = 5
    /\ \E t \in DOMAIN TheCall.termFreq \ DOMAIN termFreq : TheCall.termFreq[t] = 4
    /\ \E t \in DOMAIN termFreq : termFreq[t] = 1

\* C22 as stated: a Prune that runs PruneLessThanPercent(p) removes exactly
\* the terms with documentFrequency * 100 < documentCount * p and keeps every
\* other term, for every documentCount >= 1 and every p in 0..100.
C22_LessThanPercent ==
    HookRan("LessThanPercent") =>
        Keeps(TermsIn({freq \in 1..TheCall.documents :
                          ~(freq * 100 < TheCall.documents * TheHook.n)}))

\* C23: a Prune that runs PruneLessThan(n) removes exactly the terms in fewer
\* than n documents, one that runs PruneMoreThan(n) exactly the terms in more
\* than n documents; either keeps a term in exactly n documents.
C23_LessThanMoreThan ==
    /\ HookRan("LessThan") =>
          Keeps(TermsIn({freq \in 1..TheCall.documents : freq >= TheHook.n}))
    /\ HookRan("MoreThan") =>
          Keeps(TermsIn({freq \in 1..TheCall.documents : freq <= TheHook.n}))

\* C23 witness: PruneLessThan(2) has run; a term in 1 document is gone, a
\* term in exactly 2 documents is left.
C23_Witness ==
    /\ HookRan("LessThan")
    /\ TheHook.n = 2
    /\ \E t \in DOMAIN TheCall.termFreq \ DOMAIN termFreq : TheCall.termFreq[t] = 1
    /\ \E t \in DOMAIN termFreq : termFreq[t] = 2

\* C24 as stated: GetUsedCapacity returns the number of vocabulary terms
\* times 100 over maxVectorSize, truncated: 0 for an empty corpus, 100 when
\* the vocabulary is as large as the cap, more than 100 when it is larger.
C24_UsedCapacity ==
    op = "GetUsedCapacity" =>
        LET n == Cardinality(DOMAIN termFreq)
        IN /\ retCount = (n * 100) \div maxVectorSize
           /\ n = 0 => retCount = 0
           /\ n = maxVectorSize => retCount = 100
           /\ n > maxVectorSize => retCount > 100

\* C25 as stated: a vector CreateVector returns that is not all zeros has
\* Euclidean norm 1. In the classes of the model a norm of 1 is a norm that is
\* a positive number: not zero, not infinite, not NaN.
C25_NonZeroVectorHasUnitNorm ==
    op = "CreateVector" /\ ~IsNoMatchVector(vector) => Magnitude(vector) = "pos"

\* The vector CreateVector would return for a text on the corpus as it is.
VectorOf(text) ==
    DoCreateVector(Corpus, maxVectorSize, pruneHooks, termFilters, text).vector

\* The filtered terms of a text that have a coordinate: in the vocabulary,
\* within the first maxVectorSize sorted terms.
RankedTerms(text) ==
    Range(tokenize(termFilters, text))
        \cap {TermAt(Corpus, i) : i \in 0..(VectorSize(Corpus, maxVectorSize) - 1)}

\* Two vectors have a coordinate where neither is zero.
Overlap(v, w) == \E i \in 1..Min(Len(v), Len(w)) : v[i] # "zero" /\ w[i] # "zero"

\* C26 as stated: the vector of a query and the vector of a document, made on
\* the same corpus, have a common non-zero coordinate if and only if the two
\* texts share a filtered term that has a coordinate.
C26_MatchIffSharedTerm ==
    op = "CreateVector" =>
        \A doc \in Texts :
            Overlap(vector, VectorOf(doc)) <=> RankedTerms(arg) \cap RankedTerms(doc) # {}

\* C27: an IndexDocument call never shrinks the vocabulary: every term of
\* the vocabulary before the call is in it after the call, in the map and in
\* the term index, no document frequency decreases, and the vocabulary is no
\* smaller.
C27_IndexNeverShrinks ==
    [][op' = "IndexDocument" =>
        /\ DOMAIN termFreq \subseteq DOMAIN termFreq'
        /\ \A t \in DOMAIN termFreq : termFreq'[t] >= termFreq[t]
        /\ Range(termIndex) \subseteq Range(termIndex')
        /\ Len(termIndex') >= Len(termIndex)
        /\ Cardinality(DOMAIN termFreq') >= Cardinality(DOMAIN termFreq)]_vars

\* C27 witness: a second document has been indexed; it repeated a term of
\* the first and brought a term that sorts before it.
C27_Witness ==
    /\ op = "IndexDocument"
    /\ documents = 2
    /\ Len(termIndex) = 2
    /\ termFreq[termIndex[1]] = 1
    /\ termFreq[termIndex[2]] = 2

\* The documents of a bag indexed in one fixed order on a corpus.
RECURSIVE IndexAll(_, _)
IndexAll(c, bag) ==
    IF bag = EmptyBag THEN c
    ELSE LET text == CHOOSE t \in BagToSet(bag) : TRUE
         IN IndexAll(DoIndexDocument(c, termFilters, text), bag (-) SetToBag({text}))

\* C28: whatever the order the documents were indexed in, with no Prune in
\* between, the document frequencies, the sorted term index and the document
\* count are those of the same documents indexed in one fixed order, and so
\* is the vector of every text.
C28_OrderIndependent ==
    LET c == IndexAll(NewCorpus, indexed)
    IN /\ termFreq = c.termFreq
       /\ termIndex = c.termIndex
       /\ documents = c.documents
       /\ \A text \in Texts :
             ReadVector(Corpus, maxVectorSize, termFilters, text)
               = ReadVector(c, maxVectorSize, termFilters, text)

\* C28 witness: two different documents have been indexed, the one that
\* sorts later first: "b", then "a".
C28_Witness ==
    /\ op = "IndexDocument"
    /\ indexed = SetToBag({<<97>>, <<98>>})
    /\ termIndex = <<<<97>>, <<98>>>>
    /\ documents = 2

\* filter_i(...filter_1(tokenizer(text))): the output of the i-th registered
\* filter.
RECURSIVE Stage(_, _)
Stage(i, text) ==
    IF i = 0 THEN DefaultTokenizer(text)
    ELSE ApplyFilter(termFilters[i], Stage(i - 1, text))

Pipeline(text) == Stage(Len(termFilters), text)

\* The documents of the bag whose pipeline output holds the term.
DocsHolding(term) ==
    LET holds == {text \in BagToSet(indexed) : term \in Range(Pipeline(text))}
        RECURSIVE Sum(_)
        Sum(texts) ==
            IF texts = {} THEN 0
            ELSE LET text == CHOOSE t \in texts : TRUE
                 IN CopiesIn(text, indexed) + Sum(texts \ {text})
    IN Sum(holds)

\* C29: IndexDocument and CreateVector both work on the same token sequence,
\* the tokenizer's output passed through the filters in registration order:
\* the vocabulary counts, per term, the indexed documents whose sequence holds
\* the term, and the vector returned is the one scored from the sequence of
\* the text.
C29_FiltersInOrder ==
    /\ DOMAIN termFreq = UNION {Range(Pipeline(text)) : text \in BagToSet(indexed)}
    /\ \A term \in DOMAIN termFreq : termFreq[term] = DocsHolding(term)
    /\ op = "CreateVector" =>
          vector = Normalize(Scores(Corpus, maxVectorSize, Pipeline(arg)))

\* C29 witness: with ToUpper registered before the lowercasing of the first
\* character, "Ab" has been indexed as "aB" (ToUpper last would give "AB")
\* and the vector of "Ab" matches it.
C29_Witness ==
    /\ op = "CreateVector"
    /\ termFilters = <<[kind |-> "ToUpper"], [kind |-> "LowerFirstChar"]>>
    /\ <<97, 66>> \in DOMAIN termFreq
    /\ arg = <<65, 98>>
    /\ \E i \in 1..Len(vector) : vector[i] = "pos"

\* The text lowercased, character by character.
Lowered(text) == [i \in 1..Len(text) |-> ToLower(text[i])]

\* The maximal runs of the characters of a class in a text, in text order.
MaximalRuns(text, class) ==
    LET InClass(r) == r \in class
        starts == {i \in 1..Len(text) : InClass(text[i]) /\ (i = 1 \/ ~InClass(text[i - 1]))}
        EndOf(i) == CHOOSE j \in i..Len(text) :
                       /\ \A k \in i..j : InClass(text[k])
                       /\ j = Len(text) \/ ~InClass(text[j + 1])
        Start(n) == CHOOSE i \in starts : Cardinality({x \in starts : x < i}) = n - 1
    IN [n \in 1..Cardinality(starts) |-> SubSeq(text, Start(n), EndOf(Start(n)))]

\* The character classes, among the code points below 256.
IsDigit(r) == r \in 48..57
LettersAndDigits == {r \in 0..255 : IsLetter(r) \/ IsDigit(r)}
LettersAndNumbers == {r \in 0..255 : IsLetter(r) \/ IsNumber(r)}

\* Every run of the tokenizer took the runs of the class from the lowercased
\* text, in order, up to the caller's break; no term is empty; and two runs
\* over the same text took the same terms as far as both went.
TokenizerYields(class) ==
    /\ \A n \in 1..Len(yielded) :
          /\ yielded[n].terms = Take(MaximalRuns(Lowered(arg), class), yielded[n].limit)
          /\ \A k \in 1..Len(yielded[n].terms) : yielded[n].terms[k] # <<>>
    /\ Len(yielded) = 2 =>
          \A k \in 1..Min(Len(yielded[1].terms), Len(yielded[2].terms)) :
              yielded[1].terms[k] = yielded[2].terms[k]

\* C30 as stated: DefaultTokenizer emits, in input order, exactly the maximal
\* runs of letters and digits of the lowercased input, every other character
\* being a separator; no term is empty; repeated calls yield the same terms.
C30_AsStated == TokenizerYields(LettersAndDigits)

\* C30 amended: the runs are of letters and of number characters
\* (unicode.IsNumber), which include characters that are not digits, such as
\* the superscript two.
C30_RunsOfLettersAndNumbers == TokenizerYields(LettersAndNumbers)

\* C30 witness: "B2 a" with a superscript two has been tokenized twice, up
\* to the first term and then to the end: "b2" with the superscript, then "a".
C30_Witness ==
    /\ op = "DefaultTokenizer"
    /\ arg = <<66, 178, 32, 97>>
    /\ Len(yielded) = 2
    /\ yielded[1].terms = <<<<98, 178>>>>
    /\ yielded[2].terms = <<<<98, 178>>, <<97>>>>

\* The elements of a finite set of numbers, in ascending order.
Ascending(S) ==
    [n \in 1..Cardinality(S) |-> CHOOSE i \in S : Cardinality({j \in S : j < i}) = n - 1]

\* The terms of seq at the positions in keep, in the order of seq.
TermsAt(seq, keep) ==
    LET at == Ascending(keep) IN [n \in 1..Cardinality(keep) |-> seq[at[n]]]

\* What the tokenizer yields for the text of the runs.
Tokenized == IF arg = NoArg THEN <<>> ELSE DefaultTokenizer(arg)

StopConfigured == Len(termFilters) = 1 /\ termFilters[1].kind = "Stop"

\* C31: a corpus whose only filter is StopTermFilter(words) yields, to a
\* caller that breaks after `limit` terms, the first `limit` of the tokenizer's
\* terms that are not in words, in the tokenizer's order and as often as the
\* tokenizer yields them; a text of stop words only yields no term.
C31_StopTermFilter ==
    StopConfigured =>
        \A n \in 1..Len(yielded) :
            LET words == termFilters[1].words
                kept == {i \in 1..Len(Tokenized) : Tokenized[i] \notin words}
            IN /\ yielded[n].terms = Take(TermsAt(Tokenized, kept), yielded[n].limit)
               /\ (\A i \in 1..Len(Tokenized) : Tokenized[i] \in words)
                    => yielded[n].terms = <<>>

\* A run that dropped a stop word and kept another term.
C31_Witness ==
    /\ StopConfigured
    /\ \E n \in 1..Len(yielded) :
        /\ yielded[n].terms # <<>>
        /\ yielded[n].limit >= Len(Tokenized)
        /\ Len(yielded[n].terms) < Len(Tokenized)

FuncConfigured == termFilters # <<>> /\ termFilters[1].kind \in FilterFuncs

\* f(term) for each term of the tokenizer, in its order.
Transformed ==
    [i \in 1..Len(Tokenized) |-> CallFilter(termFilters[1].kind, Tokenized[i])]

\* The transformed terms that are not the empty string.
NonEmptyTransformed ==
    TermsAt(Transformed, {i \in 1..Len(Tokenized) : Transformed[i] # <<>>})

\* C39: a corpus whose first filter is TermFilterFunc(f) yields f(term) for
\* each term of the tokenizer, in order, without the terms that f maps to the
\* empty string: alone that is what the caller takes, a later filter receives
\* exactly that, and no term taken is the empty string.
C39_TermFilterFunc ==
    FuncConfigured =>
        \A n \in 1..Len(yielded) :
            LET terms == yielded[n].terms
                limit == yielded[n].limit
            IN /\ Len(termFilters) = 1 => terms = Take(NonEmptyTransformed, limit)
               /\ Len(termFilters) = 2 =>
                    terms = Take(ApplyFilter(termFilters[2], NonEmptyTransformed), limit)
               /\ \A i \in 1..Len(terms) : terms[i] # <<>>

\* A run in which f emptied one term and changed the other, which was
\* yielded.
C39_Witness ==
    /\ FuncConfigured
    /\ Len(termFilters) = 1
    /\ \E n \in 1..Len(yielded) :
        /\ yielded[n].limit >= Len(Tokenized)
        /\ yielded[n].terms # <<>>
        /\ Len(yielded[n].terms) < Len(Tokenized)
        /\ yielded[n].terms[1] \notin Range(Tokenized)

\* C36: from the empty set, after any Add, Remove and Clear calls, the slice
\* of the SortedSet holds exactly the elements added and not removed or
\* cleared since, each once, in strictly ascending order; All returns that
\* list, Contains(v) is true exactly when v is one of them, and an Add of a
\* present element or a Remove of an absent one (also on the empty set)
\* leaves the slice as it was.
C36_SortedSetIsASet ==
    /\ Range(termIndex) = members
    /\ \A i \in 1..Len(termIndex), j \in 1..Len(termIndex) :
           i < j => Less(termIndex[i], termIndex[j])
    /\ op = "All" => retAll = termIndex
    /\ op = "Contains" => (retContains <=> arg \in members)
    /\ op = "Add" => arg \in members
    /\ op = "Remove" => arg \notin members

\* Contains has just answered yes on a set of three elements.
C36_Witness ==
    /\ op = "Contains"
    /\ retContains
    /\ Len(termIndex) = 3
    /\ retAll = termIndex

\* C32: every map a caller of IndexDocument or CreateVector has checked out
\* was empty when Get returned it, and at any moment it holds only terms of
\* its holder's own text, whatever earlier or concurrent calls wrote to their
\* maps and however the calls interleave.
C32_ScratchMapsDoNotLeak ==
    \A th \in Threads :
        HoldsMap(th) =>
            /\ checkedOut[th].entries = {}
            /\ DOMAIN checkedOut[th].map \subseteq Range(toks[th])

\* A caller has just checked out a map for a text without the term "b" while
\* its pool holds a map with an entry for "b" and another caller holds a map
\* it has written "b" to.
C32_Witness ==
    \E th \in Threads, other \in Threads :
        /\ th # other
        /\ HoldsMap(th) /\ HoldsMap(other)
        /\ <<98>> \notin Range(toks[th])
        /\ DOMAIN checkedOut[th].map = {}
        /\ <<98>> \in DOMAIN checkedOut[other].map
        /\ \E v \in termFreqPool : <<98>> \in DOMAIN v

\* C35: a Get called while the pool holds a map hands out a pooled map: it
\* does not make one with New.
C35_GetRecycles ==
    \A th \in Threads :
        HoldsMap(th) /\ checkedOut[th].held # {} => ~checkedOut[th].made

\* The calls that run Prune.
PruneCalls == {"Prune", "CreateVector", "CreatePaddedVector"}

\* The terms the configured hooks return for the given counts.
HooksRemove(docs, freq) ==
    UNION {RunHook(pruneHooks[i], docs, freq) : i \in 1..Len(pruneHooks)}

\* C33: the first Prune (called directly or by CreateVector) after an
\* IndexDocument, on a corpus with hooks that no Reset has emptied since,
\* hands every hook the document count and the counts as the IndexDocument
\* left them, removes from counts and index exactly the terms a hook returns,
\* leaves the other counts alone and marks the corpus pruned, whatever calls
\* came before the IndexDocument.
C33_NextPruneRunsHooks ==
    [][(/\ op' \in PruneCalls
        /\ cleanPrunes = 0
        /\ documents > 0
        /\ pruneHooks # <<>>)
       => /\ hookCalls' = [i \in 1..Len(pruneHooks) |->
                             [hook |-> i, documents |-> documents, termFreq |-> termFreq]]
          /\ DOMAIN termFreq' = DOMAIN termFreq \ HooksRemove(documents, termFreq)
          /\ \A term \in DOMAIN termFreq' : termFreq'[term] = termFreq[term]
          /\ Range(termIndex') = DOMAIN termFreq'
          /\ documents' = documents
          /\ hasPruned']_vars

\* Prune has run the hooks and removed a term that an earlier Prune had
\* removed and a later IndexDocument brought back.
C33_Witness ==
    /\ op = "Prune"
    /\ cleanPrunes = 1
    /\ hookCalls # <<>>
    /\ \E term \in DOMAIN hookCalls[1].termFreq :
        /\ term \notin DOMAIN termFreq
        /\ docsWith[term] > hookCalls[1].termFreq[term]

VectorCalls == {"CreateVector", "CreatePaddedVector"}

\* C34: every term of the vocabulary is counted in at least one and at most
\* documents documents, so c.documents / c.termFreq[term] never divides by
\* zero and is at least one, and the idf is positive; in a vector just made,
\* the component of a term of the text that is in every indexed document and
\* within the first maxVectorSize terms is not zero.
C34_CountsWithinDocuments ==
    /\ \A term \in DOMAIN termFreq :
        /\ 1 <= termFreq[term]
        /\ termFreq[term] <= documents
        /\ Idf(documents, termFreq[term]) = "pos"
    /\ op \in VectorCalls =>
        \A i \in 1..Min(Len(termIndex), maxVectorSize) :
            (/\ termIndex[i] \in Range(tokenize(termFilters, arg))
             /\ termFreq[termIndex[i]] = documents)
            => vector[i] = "pos"

\* A vector with a non-zero component for a term that is in both indexed
\* documents, beside a term that is in one of them.
C34_Witness ==
    /\ op = "CreateVector"
    /\ documents = 2
    /\ Len(termIndex) = 2
    /\ termFreq[termIndex[1]] = 2
    /\ termFreq[termIndex[2]] = 1
    /\ termIndex[1] \in Range(tokenize(termFilters, arg))
    /\ vector[1] = "pos"

\* C37: a CreateVector or CreatePaddedVector call adds no term to the
\* vocabulary, raises no count and leaves the document count as it is; it
\* leaves the corpus as one Prune call would, and as it was when the corpus
\* had been pruned since the last IndexDocument.
C37_VectorsDoNotIndex ==
    [][op' \in VectorCalls =>
         /\ DOMAIN termFreq' \subseteq DOMAIN termFreq
         /\ \A term \in DOMAIN termFreq' : termFreq'[term] <= termFreq[term]
         /\ Range(termIndex') \subseteq Range(termIndex)
         /\ documents' = documents
         /\ Corpus' = DoPrune(Corpus, pruneHooks).c
         /\ hasPruned => Corpus' = Corpus]_vars

\* A vector has been made of a text with a term that was never indexed, by a
\* call that ran the hooks; the term is not in the vocabulary.
C37_Witness ==
    /\ op \in VectorCalls
    /\ hookCalls # <<>>
    /\ documents > 0
    /\ \E term \in Range(tokenize(termFilters, arg)) :
           term \notin DOMAIN termFreq \cup DOMAIN docsWith

\* C38: under fair scheduling every call of IndexDocument, Prune, Reset,
\* CreateVector, CreatePaddedVector, GetTermFrequency, GetDocumentCount and
\* GetUsedCapacity that has been started returns, whatever the other callers
\* do; a caller that waits for c.mu holds it in no mode, and a caller that has
\* returned holds it in no mode.
C38_EveryCallReturns ==
    /\ [](\A th \in Threads :
            pc[th] \in LockWaits \cup RLockWaits \cup {"idle"} =>
                muWriter # th /\ th \notin muReaders)
    /\ \A th \in Threads : (pc[th] # "idle") ~> (pc[th] = "idle")

\* A caller waits in Lock for a reader to leave.
C38_Witness ==
    /\ muReaders # {}
    /\ WriterWaiting

====
